---- MODULE Spec2Model ----
(***************************************************************************)
(* A model of the GTO solver family (lascar-pacagi/GTO): the flat game     *)
(* tree, the info-set table with its spin lock, regret matching, and the   *)
(* iteration drivers.  Reals of the program are rationals <<num, den>>     *)
(* with den > 0 here; every other integer is the program's integer.        *)
(*                                                                         *)
(* The module holds several specifications over one set of variables; a    *)
(* specification leaves the variables of the other parts at their idle     *)
(* values.                                                                 *)
(***************************************************************************)
EXTENDS Integers, Sequences, FiniteSets, TLC

VARIABLES
    rmR,        \* regret matching: the regret vector handed to the function
    rmN,        \* regret matching: the fan-out n
    rmS,        \* regret matching: the strategy returned (<<>> before the call)
    rmImpl      \* regret matching: which implementation produced rmS

VARIABLES
    accImpl,    \* accumulate: "MCCFR" (part_000), "CFR" (part_006) or "InfoNode" (test.cpp)
    accN,       \* accumulate: the fan-out n of the entry
    accMem,     \* accumulate: the entry's numbers, R[0..n-1] then S[0..n-1] (1-based here)
    accLock,    \* accumulate: the entry's busy flag
    accPc,      \* accumulate: each thread's position
    accI,       \* accumulate: each thread's loop index i (0-based, as in the code)
    accTmp,     \* accumulate: the value a thread has read for += (or `expected` of the CAS)
    accD,       \* accumulate: values[i], the delta a thread is adding
    accBase,    \* accumulate: InfoNode only, 0 for regretSum and NUM_ACTIONS for strategySum
    accCalls,   \* accumulate: calls each thread has still to make
    accSubmitted \* accumulate: per slot, the sum of all deltas submitted so far

VARIABLES
    cpN,          \* CFR+ entry: the fan-out n
    cpRegrets,    \* CFR+ entry: Shard::regrets
    cpStrategies, \* CFR+ entry: Shard::strategies
    cpLock,       \* CFR+ entry: Shard::lock
    cpPc,         \* CFR+ entry: each thread's position
    cpI,          \* CFR+ entry: each thread's loop index i (0-based)
    cpS,          \* CFR+ entry: each thread's array s, then its strategy
    cpTmp,        \* CFR+ entry: the value a thread has read for its read-modify-write
    cpD,          \* CFR+ entry: the delta a thread is adding
    cpVisits,     \* CFR+ entry: visits of the node each thread has still to make
    cpCommitted   \* CFR+ entry: the regrets as the last completed add_regrets left them

VARIABLES
    svImpl,     \* solve: which solve loop runs
    svN,        \* solve: nb_iterations
    svIter,     \* solve: std::atomic<int> iter
    svTaken,    \* solve: loop indices i the OpenMP runtime has handed out
    svPc,       \* solve: each thread's position in the loop body
    svI,        \* solve: each thread's loop index i
    svCur,      \* solve: each thread's iteration number
    svPlayer,   \* solve: each thread's updating_player / traversing_player
    svLog       \* solve: <<iteration number, updating player>> of every traversal begun

VARIABLES
    tgName,       \* tree: the Game the GameTree is instantiated with
    game,         \* tree: the Game object of GameTree()
    info_sets,    \* GameTree::info_sets
    actions,      \* GameTree::actions
    nb_children,  \* GameTree::nb_children
    start_children_and_actions,   \* GameTree::start_children_and_actions
    children,     \* GameTree::children
    states,       \* tree: get_state() of every node, by index; it stands for
                  \* state_to_idx and, with info_sets, for info_set_to_states
    tgStack,      \* tree: the calls of build_tree that wait for a child
    tgPc,         \* tree: position of the construction
    tgRet,        \* tree: the value the last call of build_tree returned
    tgOOB         \* tree: outcome of Leduc's reads outside the table of players

VARIABLES
    slKind,       \* solver: which solver is constructed over the tree
    slPc,         \* solver: position of the construction
    slStack,      \* solver: the nodes init has still to visit
    shards,       \* MCCFR::shards, CFRPlus::shards
    probas,       \* MCCFR::probas, CFR::probas_regrets_and_strategies
    node_idx_to_data_idx,   \* also node_idx_to_shard_idx, idx_to_offset
    info_set_to_data_idx,   \* also info_set_to_shard_idx, info_set_to_offset
    shard_idx,    \* MCCFR: shard_idx
    probas_idx,   \* MCCFR: probas_idx; CFR: offset
    tvNode,       \* solver: the chance node a traversal is at
    tvI,          \* solver: the child it reads the probability of
    tvP           \* solver: the probability it has read

VARIABLES
    kImpl,        \* kernel: the traversal function the iterations run
    kPc,          \* kernel: "none", "idle", "call", "return"
    kArgs,        \* kernel: the arguments of the call that is about to run
    kStack,       \* kernel: the calls waiting for a child, the innermost first
    kRet,         \* kernel: the value the last call returned
    kCount,       \* kernel: the number of iterations begun
    kTag,         \* kernel: the iter argument of the running iteration
    kPlayer,      \* kernel: the updating player of the running iteration
    kBudget,      \* kernel: the calls the running iteration may still make
    kVisited,     \* kernel: the nodes the running iteration has entered
    kPruned,      \* kernel: the nodes at which it returned at once
    kLog,         \* kernel: the accumulations made, one record each
    kBeyond,      \* kernel: MCCFR, the memory of each shard past its array
    kOOB,         \* kernel: MCCFR, what an access past the array does
    kStrategy     \* kernel: the Strategy get_strategy has returned

VARIABLES
    brS,          \* best response: the strategy s the responses are computed against
    brPlayer,     \* best response: the player argument
    brPc,         \* best response: "none", "call", "return", "idle", "evaluated"
    brIdx,        \* best response: the node of the call that is about to run
    brStack,      \* best response: the calls waiting for a child, the innermost first
    brRet,        \* best response: the value the last call returned
    brValues,     \* best response: values, the value of each info set seen
    brRes,        \* best response: best_response, the Strategy under construction
    brDone,       \* best response: the Strategy returned for PLAYER1 and for PLAYER2
    brEval        \* best response: the three values of evaluate

VARIABLES
    ppGame,       \* postflop: the PostflopPoker object
    ppTrail,      \* postflop: the plays not undone, the last first, each with
                  \* get_state() as it was before the play
    ppPlays,      \* postflop: the number of calls of play
    ppShowdown    \* postflop: what evaluate_showdown returns once the game is over

VARIABLES
    dcN,          \* DCFR: num_iterations
    dcIter,       \* DCFR: iter
    dcPlayer,     \* DCFR: the training player of the next traversal
    dcPc,         \* DCFR: "none", "traverse", "strategy_reset", "done"
    dcAvg,        \* DCFR: the iterations whose strategies avg_strategy holds
    dcCleared     \* DCFR: the iterations at whose end avg_strategy was cleared

VARIABLES
    pvNodes,        \* parallel vanilla CFR: the keys of nodes
    pvNodeMutexes,  \* parallel vanilla CFR: the keys of node_mutexes
    pvMapMutex,     \* parallel vanilla CFR: the thread that holds map_mutex, or NoThread
    pvNodeLock,     \* parallel vanilla CFR: per info set, the thread that holds its mutex
    pvPc,           \* parallel vanilla CFR: per thread, its position in cfr
    pvStack,        \* parallel vanilla CFR: per thread, the info sets of its calls of cfr
    pvCalls,        \* parallel vanilla CFR: per thread, the calls of cfr it may still make
    pvFault         \* parallel vanilla CFR: the program has stopped in a lookup

rmVars == <<rmR, rmN, rmS, rmImpl>>
pvVars == <<pvNodes, pvNodeMutexes, pvMapMutex, pvNodeLock, pvPc, pvStack, pvCalls, pvFault>>
dcVars == <<dcN, dcIter, dcPlayer, dcPc, dcAvg, dcCleared>>
ppVars == <<ppGame, ppTrail, ppPlays, ppShowdown>>
brVars == <<brS, brPlayer, brPc, brIdx, brStack, brRet, brValues, brRes, brDone, brEval>>
kernelVars == <<kImpl, kPc, kArgs, kStack, kRet, kCount, kTag, kPlayer, kBudget, kVisited,
                kPruned, kLog, kBeyond, kOOB, kStrategy>>
solverVars == <<slKind, slPc, slStack, shards, probas, node_idx_to_data_idx,
                info_set_to_data_idx, shard_idx, probas_idx, tvNode, tvI, tvP>>
treeVars == <<tgName, game, info_sets, actions, nb_children, start_children_and_actions,
              children, states, tgStack, tgPc, tgRet, tgOOB>>
svVars == <<svImpl, svN, svIter, svTaken, svPc, svI, svCur, svPlayer, svLog>>
cpVars == <<cpN, cpRegrets, cpStrategies, cpLock, cpPc, cpI, cpS, cpTmp, cpD, cpVisits,
            cpCommitted>>
accVars == <<accImpl, accN, accMem, accLock, accPc, accI, accTmp, accD, accBase,
             accCalls, accSubmitted>>

vars == <<rmVars, accVars, cpVars, svVars,
          treeVars, solverVars, kernelVars, brVars, ppVars, dcVars, pvVars>>

\* what each part leaves alone
RMFrame == UNCHANGED <<accVars, cpVars, svVars, treeVars, solverVars, kernelVars, brVars, ppVars, dcVars, pvVars>>
AccFrame == UNCHANGED <<rmVars, cpVars, svVars, treeVars, solverVars, kernelVars, brVars, ppVars, dcVars, pvVars>>
CPFrame == UNCHANGED <<rmVars, accVars, svVars, treeVars, solverVars, kernelVars, brVars, ppVars, dcVars, pvVars>>
SVFrame == UNCHANGED <<rmVars, accVars, cpVars, treeVars, solverVars, kernelVars, brVars, ppVars, dcVars, pvVars>>
TreeFrame == UNCHANGED <<rmVars, accVars, cpVars, svVars, solverVars, kernelVars, brVars, ppVars, dcVars, pvVars>>
SolverFrame == UNCHANGED <<rmVars, accVars, cpVars, svVars, treeVars, kernelVars, brVars, ppVars, dcVars, pvVars>>
KernelFrame == UNCHANGED <<rmVars, accVars, cpVars, svVars, treeVars, brVars, ppVars, dcVars, pvVars>>
PPFrame == UNCHANGED <<rmVars, accVars, cpVars, svVars, treeVars, solverVars, kernelVars,
                       brVars, dcVars, pvVars>>
BRFrame == UNCHANGED <<rmVars, accVars, cpVars, svVars, treeVars, solverVars, kernelVars, ppVars, dcVars, pvVars>>
DCFrame == UNCHANGED <<rmVars, accVars, cpVars, svVars,
                       treeVars, solverVars, kernelVars, brVars, ppVars, pvVars>>
PVFrame == UNCHANGED <<rmVars, accVars, cpVars, svVars,
                       treeVars, solverVars, kernelVars, brVars, ppVars, dcVars>>

(***************************************************************************)
(* Constants of the program.                                               *)
(***************************************************************************)
PLAYER1 == 0
PLAYER2 == 1
CHANCE == 2

(***************************************************************************)
(* Bounds of the model.                                                    *)
(***************************************************************************)
MaxFanOut == 3      \* largest fan-out n of a regret vector that is enumerated
MaxRegret == 2      \* regrets are drawn from -MaxRegret..MaxRegret
NbThreads == 2      \* worker threads
MaxCalls == 1       \* calls of an operation each thread makes on the one entry
MaxIterations == 4  \* largest nb_iterations of a solve

Threads == 1..NbThreads
DeltaValues == {-1, 0, 2}   \* the deltas a caller may submit for one slot

(***************************************************************************)
(* Arithmetic helpers.                                                     *)
(***************************************************************************)
Max(a, b) == IF a >= b THEN a ELSE b

RECURSIVE SeqSum(_)
SeqSum(s) == IF Len(s) = 0 THEN 0 ELSE s[1] + SeqSum(Tail(s))

\* rationals <<num, den>>, den > 0
RatEq(p, q) == p[1] * q[2] = q[1] * p[2]
RatAdd(p, q) == <<p[1] * q[2] + q[1] * p[2], p[2] * q[2]>>
RatZeros(n) == [k \in 1..n |-> <<0, 1>>]
RECURSIVE RatSum(_)
RatSum(s) == IF Len(s) = 0 THEN <<0, 1>> ELSE RatAdd(s[1], RatSum(Tail(s)))

(***************************************************************************)
(* Regret matching.                                                        *)
(***************************************************************************)
\* a slip of the clamp: the raw regret is normalised
get_strategy_from_regrets_noclamp(R, n) ==
    LET sum == SeqSum([i \in 1..n |-> Max(R[i], 0)])
    IN  IF sum > 0 THEN [i \in 1..n |-> <<R[i], sum>>]
                   ELSE [i \in 1..n |-> <<1, n>>]

\* MCCFR::Shard::get_strategy_from_regrets: s[i] = max(R[i], 0), then s[i] /= sum
\* when sum > 0, else s[i] = 1/n
get_strategy_from_regrets(R, n) ==
    LET s   == [i \in 1..n |-> Max(R[i], 0)]
        sum == SeqSum(s)
    IN  IF sum > 0 THEN [i \in 1..n |-> <<s[i], sum>>]
                   ELSE [i \in 1..n |-> <<1, n>>]

\* CFR::linear_cfr: regrets_sum adds the regrets that are >= 0, then
\* s[i] = (regrets[i] >= 0 ? regrets[i] : 0) / regrets_sum, else 1/n
linear_cfr_strategy(regrets, n) ==
    LET regrets_sum == SeqSum([i \in 1..n |-> IF regrets[i] >= 0 THEN regrets[i] ELSE 0])
    IN  IF regrets_sum > 0
        THEN [i \in 1..n |-> <<IF regrets[i] >= 0 THEN regrets[i] ELSE 0, regrets_sum>>]
        ELSE [i \in 1..n |-> <<1, n>>]

\* CFRPlus::Shard::get_strategy_from_regrets, the arithmetic on the snapshot s
\* taken under the lock: s[i] = max(regrets[i], 0) was stored, sum accumulated
cfr_plus_normalise(s, n) ==
    LET sum == SeqSum(s)
    IN  IF sum > 0 THEN [i \in 1..n |-> <<s[i], sum>>]
                   ELSE [i \in 1..n |-> <<1, n>>]

cfr_plus_strategy(regrets, n) ==
    cfr_plus_normalise([i \in 1..n |-> Max(regrets[i], 0)], n)

RMValues == (0 - MaxRegret)..MaxRegret

RMIdle == /\ rmR = <<>>
          /\ rmN = 0
          /\ rmS = <<>>
          /\ rmImpl = "none"

RMInit == /\ rmN \in 1..MaxFanOut
          /\ rmR \in [1..rmN -> RMValues]
          /\ rmS = <<>>
          /\ rmImpl = "none"

RM_MCCFR ==
    /\ rmImpl = "none"
    /\ rmN > 0
    /\ rmS' = get_strategy_from_regrets(rmR, rmN)
    /\ rmImpl' = "MCCFR"
    /\ UNCHANGED <<rmR, rmN>>
    /\ RMFrame

RM_LinearCFR ==
    /\ rmImpl = "none"
    /\ rmN > 0
    /\ rmS' = linear_cfr_strategy(rmR, rmN)
    /\ rmImpl' = "CFR"
    /\ UNCHANGED <<rmR, rmN>>
    /\ RMFrame

RM_CFRPlus ==
    /\ rmImpl = "none"
    /\ rmN > 0
    /\ rmS' = cfr_plus_strategy(rmR, rmN)
    /\ rmImpl' = "CFRPlus"
    /\ UNCHANGED <<rmR, rmN>>
    /\ RMFrame

RMNext == RM_MCCFR \/ RM_LinearCFR \/ RM_CFRPlus

(***************************************************************************)
(* accumulate on one info-set entry, by several threads.                   *)
(*                                                                         *)
(* MCCFR::Shard (part_000) is                                              *)
(*     std::array<double, MAX_NB_PLAYER_ACTIONS> regrets_and_strategies;   *)
(*     std::atomic<bool> lock;                                             *)
(* aligned to 64 bytes, and add_regret_and_strategies writes the indices   *)
(* 0..2n-1.  An index >= MAX_NB_PLAYER_ACTIONS is outside the array: the   *)
(* first such index lies on the bytes of `lock`, the following ones on the *)
(* padding of the entry.  The numbers kept there are accMem's slots all    *)
(* the same; a store to the first one overwrites the flag, which may then  *)
(* read as either value.  CFR::Shard (part_006) keeps a vector of size 2n, *)
(* InfoNode (test.cpp) NUM_ACTIONS atomics per kind.                       *)
(***************************************************************************)
MAX_NB_PLAYER_ACTIONS == 2
NUM_ACTIONS == 3

\* number of slots the entry is used with
AccLen == IF accImpl = "InfoNode" THEN 2 * NUM_ACTIONS ELSE 2 * accN

\* slots the entry's array really has
AccCapacity == CASE accImpl = "MCCFR" -> MAX_NB_PLAYER_ACTIONS
                 [] accImpl = "CFR" -> 2 * accN
                 [] OTHER -> 2 * NUM_ACTIONS

AccZeros(len) == [i \in 1..len |-> 0]

AccIdle ==
    /\ accImpl = "none"
    /\ accN = 0
    /\ accMem = <<>>
    /\ accLock = FALSE
    /\ accPc = [t \in Threads |-> "idle"]
    /\ accI = [t \in Threads |-> 0]
    /\ accTmp = [t \in Threads |-> 0]
    /\ accD = [t \in Threads |-> 0]
    /\ accBase = [t \in Threads |-> 0]
    /\ accCalls = [t \in Threads |-> 0]
    /\ accSubmitted = <<>>

AccInit ==
    /\ accImpl \in {"MCCFR", "CFR", "InfoNode"}
    /\ accN \in IF accImpl = "InfoNode" THEN {NUM_ACTIONS} ELSE 1..MAX_NB_PLAYER_ACTIONS
    /\ accMem = AccZeros(AccLen)
    /\ accLock = FALSE
    /\ accPc = [t \in Threads |-> "idle"]
    /\ accI = [t \in Threads |-> 0]
    /\ accTmp = [t \in Threads |-> 0]
    /\ accD = [t \in Threads |-> 0]
    /\ accBase = [t \in Threads |-> 0]
    /\ accCalls = [t \in Threads |-> MaxCalls]
    /\ accSubmitted = AccZeros(AccLen)

\* a thread enters add_regret_and_strategies(values, n)
add_regret_and_strategies_call(t) ==
    /\ accImpl \in {"MCCFR", "CFR"}
    /\ accPc[t] = "idle"
    /\ accCalls[t] > 0
    /\ accPc' = [accPc EXCEPT ![t] = "load"]
    /\ accCalls' = [accCalls EXCEPT ![t] = @ - 1]
    /\ UNCHANGED <<accImpl, accN, accMem, accLock, accI, accTmp, accD, accBase, accSubmitted>>
    /\ AccFrame

\* if (lock.load()) continue;  -- a set flag leaves the thread where it is
add_regret_and_strategies_load(t) ==
    /\ accPc[t] = "load"
    /\ ~accLock
    /\ accPc' = [accPc EXCEPT ![t] = "cas"]
    /\ UNCHANGED <<accImpl, accN, accMem, accLock, accI, accTmp, accD, accBase, accCalls,
                   accSubmitted>>
    /\ AccFrame

\* lock.compare_exchange_strong(expected = false, true): break, or loop again
add_regret_and_strategies_cas(t) ==
    /\ accPc[t] = "cas"
    /\ IF accLock
       THEN /\ accPc' = [accPc EXCEPT ![t] = "load"]
            /\ UNCHANGED <<accLock, accI>>
       ELSE /\ accLock' = TRUE
            /\ accPc' = [accPc EXCEPT ![t] = "read"]
            /\ accI' = [accI EXCEPT ![t] = 0]
    /\ UNCHANGED <<accImpl, accN, accMem, accTmp, accD, accBase, accCalls, accSubmitted>>
    /\ AccFrame

\* regrets_and_strategies[i] += values[i], the read; values[i] is any delta
add_regret_and_strategies_read(t) ==
    /\ accPc[t] = "read"
    /\ accI[t] < AccLen
    /\ \E d \in DeltaValues :
          /\ accD' = [accD EXCEPT ![t] = d]
          /\ accSubmitted' = [accSubmitted EXCEPT ![accI[t] + 1] = @ + d]
    /\ accTmp' = [accTmp EXCEPT ![t] = accMem[accI[t] + 1]]
    /\ accPc' = [accPc EXCEPT ![t] = "write"]
    /\ UNCHANGED <<accImpl, accN, accMem, accLock, accI, accBase, accCalls>>
    /\ AccFrame

\* the flag after a store to index i: a store on the flag's bytes leaves either value
FlagAfterStore(i) ==
    IF i = AccCapacity THEN BOOLEAN ELSE {accLock}

\* regrets_and_strategies[i] += values[i], the write; i++
add_regret_and_strategies_write(t) ==
    /\ accPc[t] = "write"
    /\ accMem' = [accMem EXCEPT ![accI[t] + 1] = accTmp[t] + accD[t]]
    /\ accLock' \in FlagAfterStore(accI[t])
    /\ accI' = [accI EXCEPT ![t] = @ + 1]
    /\ accPc' = [accPc EXCEPT ![t] = IF accI[t] + 1 < AccLen THEN "read" ELSE "unlock"]
    /\ UNCHANGED <<accImpl, accN, accTmp, accD, accBase, accCalls, accSubmitted>>
    /\ AccFrame

\* lock.store(false, release); return
add_regret_and_strategies_unlock(t) ==
    /\ accPc[t] = "unlock"
    /\ accLock' = FALSE
    /\ accPc' = [accPc EXCEPT ![t] = "idle"]
    /\ UNCHANGED <<accImpl, accN, accMem, accI, accTmp, accD, accBase, accCalls, accSubmitted>>
    /\ AccFrame

\* InfoNode::accumulateRegrets(regrets) / accumulateStrategies(strats): a = 0
accumulate_call(t) ==
    /\ accImpl = "InfoNode"
    /\ accPc[t] = "idle"
    /\ accCalls[t] > 0
    /\ \E base \in {0, NUM_ACTIONS} : accBase' = [accBase EXCEPT ![t] = base]
    /\ accI' = [accI EXCEPT ![t] = 0]
    /\ accPc' = [accPc EXCEPT ![t] = "batch"]
    /\ accCalls' = [accCalls EXCEPT ![t] = @ - 1]
    /\ UNCHANGED <<accImpl, accN, accMem, accLock, accTmp, accD, accSubmitted>>
    /\ AccFrame

\* for (a...) if (regrets[a] != 0.0f) accumulateRegret(a, regrets[a]);
\* accumulateRegret begins with expected = regretSum[action].load()
accumulate_batch(t) ==
    /\ accPc[t] = "batch"
    /\ IF accI[t] < NUM_ACTIONS
       THEN \E d \in DeltaValues :
              /\ accSubmitted' = [accSubmitted EXCEPT ![accBase[t] + accI[t] + 1] = @ + d]
              /\ accD' = [accD EXCEPT ![t] = d]
              /\ IF d # 0
                 THEN /\ accTmp' = [accTmp EXCEPT ![t] = accMem[accBase[t] + accI[t] + 1]]
                      /\ accPc' = [accPc EXCEPT ![t] = "cas_weak"]
                      /\ accI' = accI
                 ELSE /\ accI' = [accI EXCEPT ![t] = @ + 1]
                      /\ UNCHANGED <<accTmp, accPc>>
       ELSE /\ accPc' = [accPc EXCEPT ![t] = "idle"]
            /\ UNCHANGED <<accSubmitted, accD, accTmp, accI>>
    /\ UNCHANGED <<accImpl, accN, accMem, accLock, accBase, accCalls>>
    /\ AccFrame

\* what compare_exchange_weak stores when the slot holds `expected`
cas_weak_desired(expected, value) == expected + value

\* while (!x.compare_exchange_weak(expected, expected + value)) {}
\* a failure loads the slot into expected; a spurious failure changes nothing
accumulate_cas_weak(t) ==
    /\ accPc[t] = "cas_weak"
    /\ LET slot == accBase[t] + accI[t] + 1
       IN  IF accMem[slot] = accTmp[t]
           THEN /\ accMem' = [accMem EXCEPT ![slot] = cas_weak_desired(accTmp[t], accD[t])]
                /\ accI' = [accI EXCEPT ![t] = @ + 1]
                /\ accPc' = [accPc EXCEPT ![t] = "batch"]
                /\ accTmp' = accTmp
           ELSE /\ accTmp' = [accTmp EXCEPT ![t] = accMem[slot]]
                /\ UNCHANGED <<accMem, accI, accPc>>
    /\ UNCHANGED <<accImpl, accN, accLock, accD, accBase, accCalls, accSubmitted>>
    /\ AccFrame

AccNext ==
    \E t \in Threads :
        \/ add_regret_and_strategies_call(t)
        \/ add_regret_and_strategies_load(t)
        \/ add_regret_and_strategies_cas(t)
        \/ add_regret_and_strategies_read(t)
        \/ add_regret_and_strategies_write(t)
        \/ add_regret_and_strategies_unlock(t)
        \/ accumulate_call(t)
        \/ accumulate_batch(t)
        \/ accumulate_cas_weak(t)


(***************************************************************************)
(* Machine words.  A State, an InfoSet and an action_history are unsigned  *)
(* integers of up to 64 bits; a word is kept as <<hi, lo>>, lo its 24 low  *)
(* bits and hi the bits above them, so that every number stays within the  *)
(* range of the model's integers.                                          *)
(***************************************************************************)
HalfBits == 6 * 4     \* six plies of 4 bits, eight plies of 3 bits
Half == 2 ^ HalfBits

RECURSIVE BitAnd(_, _)
BitAnd(a, b) == IF a = 0 \/ b = 0 THEN 0
                ELSE (a % 2) * (b % 2) + 2 * BitAnd(a \div 2, b \div 2)

RECURSIVE BitOr(_, _)
BitOr(a, b) == IF a = 0 THEN b
               ELSE IF b = 0 THEN a
               ELSE Max(a % 2, b % 2) + 2 * BitOr(a \div 2, b \div 2)

WordZero == <<0, 0>>
WordOr(x, y) == <<BitOr(x[1], y[1]), BitOr(x[2], y[2])>>
WordAnd(x, y) == <<BitAnd(x[1], y[1]), BitAnd(x[2], y[2])>>
\* x & ~y
WordAndNot(x, y) == <<x[1] - BitAnd(x[1], y[1]), x[2] - BitAnd(x[2], y[2])>>
\* v << s, for a v of at most 6 bits
WordShl(v, s) == IF s >= HalfBits THEN <<v * 2 ^ (s - HalfBits), 0>>
                 ELSE <<(v * 2 ^ s) \div Half, (v * 2 ^ s) % Half>>
\* (x >> s) & (2^width - 1), for a field that does not straddle the halves
WordField(x, s, width) == IF s >= HalfBits THEN (x[1] \div 2 ^ (s - HalfBits)) % 2 ^ width
                          ELSE (x[2] \div 2 ^ s) % 2 ^ width

(***************************************************************************)
(* SimplePoker (simple_poker.h).                                           *)
(***************************************************************************)
\* the actions SimplePoker and Leduc share
CHECK == 0
BET == 1
CALL == 2
FOLD == 3
HL == 4
LL == 5
HH == 6
SP_END == 7

SimplePoker_new == [action_history |-> WordZero, nb_plies |-> 0]

SimplePoker_get_state(g) == WordOr(WordShl(g.nb_plies, 15), g.action_history)

SimplePoker_set_state(state) ==
    [action_history |-> WordAnd(state, <<0, 32767>>), nb_plies |-> WordField(state, 15, 9)]

\* masks that keep the two cards and nothing of the betting
SimplePoker_masks_cards_only == <<7, 56, 63>>

\* 0b111111111000111, 0b111111111111000, 0b111111111111111
SimplePoker_masks == <<32711, 32760, 32767>>

SimplePoker_get_info_set(g, player) ==
    WordOr(WordShl(g.nb_plies, 15), WordAnd(<<0, SimplePoker_masks[player + 1]>>, g.action_history))

SimplePoker_PAYOFFS ==
    <<0, 0, 0, -1, 0, 3, -1, 1, -3, 0, -1, 1, 0, 0, 1, 0, 0, -1, -1, 3, -1, 0, 0, 0, -1, 1, -3,
      -1, 1, 1>>

\* magic = 1909500917 = 29136 * 2^16 + 44021; the product is taken modulo 2^32
\* and shifted right by 27, i.e. the 16 high bits of the product by 11
SimplePoker_hash(h) ==
    ((((h * 44021) \div 65536) + ((h * 29136) % 65536)) % 65536) \div 2048

SimplePoker_payoff(g, player) ==
    SimplePoker_PAYOFFS[SimplePoker_hash(g.action_history[2]) + 1]
        * (IF player = PLAYER1 THEN 1 ELSE -1)

SimplePoker_play(g, a) ==
    [action_history |-> WordOr(g.action_history, WordShl(a, g.nb_plies * 3)),
     nb_plies |-> g.nb_plies + 1]

SimplePoker_undo(g, a) ==
    [action_history |-> WordAndNot(g.action_history, WordShl(7, (g.nb_plies - 1) * 3)),
     nb_plies |-> g.nb_plies - 1]

SimplePoker_current_player(g) == IF g.nb_plies < 2 THEN CHANCE ELSE g.nb_plies % 2

SimplePoker_get_action(g, i) == WordField(g.action_history, i * 3, 3)

SimplePoker_game_over(g) ==
    g.nb_plies = 5 \/ (g.nb_plies = 4 /\ SimplePoker_get_action(g, 3) # BET)

SimplePoker_ACTIONS ==
    <<HH, LL, HL, SP_END, CHECK, BET, SP_END, FOLD, CALL, SP_END>>

SimplePoker_DELTAS == <<0, 0, 4, 4, 7>>

\* the entries of table from the 0-based index start up to the first END
RECURSIVE MovesFrom(_, _, _)
MovesFrom(table, start, end) ==
    IF table[start + 1] = end THEN <<>>
    ELSE <<table[start + 1]>> \o MovesFrom(table, start + 1, end)

SimplePoker_actions(g) ==
    LET start == SimplePoker_DELTAS[g.nb_plies + 1]
                 + (IF g.nb_plies = 3 /\ SimplePoker_get_action(g, 2) = BET THEN 3 ELSE 0)
    IN  MovesFrom(SimplePoker_ACTIONS, start, SP_END)

SimplePoker_is_chance_player(g) == g.nb_plies < 2

SimplePoker_probas(g) == IF g.nb_plies < 2 THEN <<25, 25, 50>> ELSE <<>>

(***************************************************************************)
(* Leduc (part_011).                                                       *)
(***************************************************************************)
JACK == 4
QUEEN == 5
KING == 6
RAISE == 7
LEDUC_END == 8

Leduc_new == [action_history |-> WordZero, nb_plies |-> 0]

Leduc_get_state(g) == WordOr(WordShl(g.nb_plies, 48), g.action_history)

\* action_history = state & 0xFFFFFFFFFFFF; nb_plies = state >> 48
Leduc_set_state(state) ==
    [action_history |-> <<state[1] % Half, state[2]>>, nb_plies |-> state[1] \div Half]

\* 0xFFFFFFFFFF0F, 0xFFFFFFFFFFF0, 0xFFFFFFFFFFFF
Leduc_masks == <<<<16777215, 16776975>>, <<16777215, 16777200>>, <<16777215, 16777215>>>>

Leduc_get_info_set(g, player) ==
    WordOr(WordShl(g.nb_plies, 48), WordAnd(Leduc_masks[player + 1], g.action_history))

Leduc_play(g, a) ==
    [action_history |-> WordOr(g.action_history, WordShl(a, g.nb_plies * 4)),
     nb_plies |-> g.nb_plies + 1]

Leduc_undo(g, a) ==
    [action_history |-> WordAndNot(g.action_history, WordShl(15, (g.nb_plies - 1) * 4)),
     nb_plies |-> g.nb_plies - 1]

Leduc_get_action(g, i) == WordField(g.action_history, i * 4, 4)

Leduc_player ==
    <<<<CHANCE, CHANCE, PLAYER1, PLAYER2, CHANCE, PLAYER1, PLAYER2, PLAYER1, PLAYER2, PLAYER1,
        PLAYER2>>,
      <<CHANCE, CHANCE, PLAYER1, PLAYER2, PLAYER1, CHANCE, PLAYER1, PLAYER2, PLAYER1, PLAYER2,
        PLAYER1>>,
      <<CHANCE, CHANCE, PLAYER1, PLAYER2, PLAYER1, PLAYER2, CHANCE, PLAYER1, PLAYER2, PLAYER1,
        PLAYER2>>>>

\* what current_player returns when nb_plies is not an index of a row of the
\* table: the read is outside the array
OutOfTable == 0 - 1

Leduc_current_player(g) ==
    LET row == IF Leduc_get_action(g, 4) = RAISE THEN 2
               ELSE IF Leduc_get_action(g, 3) \in {BET, RAISE} THEN 1 ELSE 0
    IN  IF g.nb_plies < 11 THEN Leduc_player[row + 1][g.nb_plies + 1] ELSE OutOfTable

Leduc_game_over(g) ==
    IF g.nb_plies <= 2 THEN FALSE
    ELSE LET last_action == Leduc_get_action(g, g.nb_plies - 1)
             before_last_action == Leduc_get_action(g, g.nb_plies - 2)
             is_chance == \/ last_action \in {JACK, QUEEN, KING}
                          \/ before_last_action \in {JACK, QUEEN, KING}
         IN  IF last_action = FOLD THEN TRUE
             ELSE g.nb_plies >= 7 /\ ~is_chance /\ last_action \in {CHECK, CALL}

Leduc_is_chance_player(g) == Leduc_current_player(g) = CHANCE

Leduc_ACTIONS ==
    <<JACK, QUEEN, KING, LEDUC_END,
      CHECK, BET, LEDUC_END, FOLD, CALL, RAISE, LEDUC_END, FOLD, CALL, LEDUC_END,
      QUEEN, KING, LEDUC_END,
      JACK, KING, LEDUC_END,
      JACK, QUEEN, LEDUC_END>>

Leduc_DELTAS ==
    <<0, 0, 4, 4, 4, 4, 4, 4, 4, 4, 4, 14, 0, 0, 0, 0, 0, 0, 17, 0, 0, 0, 0, 0, 0, 0, 0, 20>>

Leduc_D == <<0, 3, 0, 0, 0, 0, 0, 7>>

Leduc_actions(g) ==
    LET card1 == WordField(g.action_history, 0, 4)
        card2 == WordField(g.action_history, 4, 4)
        start == IF g.nb_plies > 2
                 THEN IF Leduc_current_player(g) = CHANCE
                      THEN Leduc_DELTAS[2 + (card1 - 1) * (card2 - 1) + 1]
                      ELSE Leduc_DELTAS[g.nb_plies + 1]
                           + Leduc_D[Leduc_get_action(g, g.nb_plies - 1) + 1]
                 ELSE Leduc_DELTAS[g.nb_plies + 1]
    IN  MovesFrom(Leduc_ACTIONS, start, LEDUC_END)

Leduc_probas(g) ==
    LET card1 == WordField(g.action_history, 0, 4)
        card2 == WordField(g.action_history, 4, 4)
        w(c) == 20 + (IF g.nb_plies = 1 /\ card1 # c THEN 20 ELSE 0)
        v(c) == 20 + (IF card1 # c /\ card2 # c THEN 20 ELSE 0)
    IN  IF g.nb_plies < 2 THEN <<w(JACK), w(QUEEN), w(KING)>>
        ELSE IF card1 = card2 THEN <<50, 50>>
        ELSE <<v(JACK), v(QUEEN), v(KING)>>

\* one betting round of payoff: the actions from ply on, with the pot and the
\* raise of the round; the result is <<folded, pot or signed payoff, next ply>>
Leduc_payoff_round(g, ply, pot, raise, player) ==
    LET a1_p1 == Leduc_get_action(g, ply)
        a1_p2 == Leduc_get_action(g, ply + 1)
        a2    == Leduc_get_action(g, ply + 2)
        a3    == Leduc_get_action(g, ply + 3)
        to(winner, p) == IF player = winner THEN p ELSE 0 - p
    IN  IF a1_p1 = BET
        THEN IF a1_p2 = FOLD THEN <<TRUE, to(PLAYER1, pot), ply + 2>>
             ELSE IF a1_p2 = RAISE
                  THEN IF a2 = FOLD THEN <<TRUE, to(PLAYER2, pot + raise), ply + 3>>
                       ELSE <<FALSE, pot + 2 * raise, ply + 3>>
                  ELSE <<FALSE, pot + raise, ply + 2>>
        ELSE IF a1_p2 = BET
             THEN IF a2 = FOLD THEN <<TRUE, to(PLAYER2, pot), ply + 3>>
                  ELSE IF a2 = RAISE
                       THEN IF a3 = FOLD THEN <<TRUE, to(PLAYER1, pot + raise), ply + 4>>
                            ELSE <<FALSE, pot + 2 * raise, ply + 4>>
                       ELSE <<FALSE, pot + raise, ply + 3>>
             ELSE <<FALSE, pot, ply + 2>>

Leduc_payoff(g, player) ==
    LET card_p1 == Leduc_get_action(g, 0)
        card_p2 == Leduc_get_action(g, 1)
        r1 == Leduc_payoff_round(g, 2, 1, 2, player)
        community_card == Leduc_get_action(g, r1[3])
        r2 == Leduc_payoff_round(g, r1[3] + 1, r1[2], 4, player)
        pot == r2[2]
        p1_rank == IF card_p1 = community_card THEN 100 + card_p1 ELSE card_p1
        p2_rank == IF card_p2 = community_card THEN 100 + card_p2 ELSE card_p2
        winner_payoff == IF p1_rank > p2_rank THEN pot
                         ELSE IF p1_rank < p2_rank THEN 0 - pot ELSE 0
    IN  IF r1[1] THEN r1[2]
        ELSE IF r2[1] THEN r2[2]
        ELSE IF player = PLAYER1 THEN winner_payoff ELSE 0 - winner_payoff

(***************************************************************************)
(* PostflopPoker (part_010).  GameTree builds the tree of a game that it   *)
(* default-constructs: flop {0, 0, 0}, no ranges, street INITIAL_DEAL.     *)
(* What follows is the part of the game this construction runs: the        *)
(* constructor, get_state, get_info_set, game_over, is_chance_player,      *)
(* current_player up to its chance test, and actions and probas at         *)
(* INITIAL_DEAL.                                                           *)
(***************************************************************************)
INVALID_CARD == 63
DEAL_HANDS_START == 7
INITIAL_DEAL == 0
TURN_DEAL == 2
RIVER_DEAL == 4
SHOWDOWN == 6
PostflopPoker_FOLD == 0
PostflopPoker_CHECK == 1
PostflopPoker_CALL == 2
BET_HALF_POT == 3
BET_POT == 4
RAISE_POT == 5
ALL_IN == 6
FLOP_BETTING == 1
TURN_BETTING == 3
RIVER_BETTING == 5

\* PostflopPoker() : flop_cards{0, 0, 0}, starting_pot(20), stacks 100; reset()
PostflopPoker_new ==
    [flop_cards |-> <<0, 0, 0>>, range_p1 |-> <<>>, range_p2 |-> <<>>,
     starting_pot |-> 20, starting_stack_p1 |-> 100, starting_stack_p2 |-> 100,
     street |-> INITIAL_DEAL, pot |-> 20, stack_p1 |-> 100, stack_p2 |-> 100,
     turn_card |-> INVALID_CARD, river_card |-> INVALID_CARD,
     bet_this_street |-> 0, to_call |-> 0, action_history |-> WordZero, num_actions |-> 0,
     p1_hole |-> <<INVALID_CARD, INVALID_CARD>>, p2_hole |-> <<INVALID_CARD, INVALID_CARD>>]

\* PostflopPoker(flop, h1, h2, starting_pot, starting_stack): the constructor for
\* the analysis of a single hand; the ranges stay empty
PostflopPoker_hands(flop, h1, h2, starting_pot, starting_stack) ==
    [flop_cards |-> flop, range_p1 |-> <<>>, range_p2 |-> <<>>,
     starting_pot |-> starting_pot, starting_stack_p1 |-> starting_stack,
     starting_stack_p2 |-> starting_stack,
     street |-> FLOP_BETTING, pot |-> starting_pot, stack_p1 |-> starting_stack,
     stack_p2 |-> starting_stack,
     turn_card |-> INVALID_CARD, river_card |-> INVALID_CARD,
     bet_this_street |-> 0, to_call |-> 0, action_history |-> WordZero, num_actions |-> 0,
     p1_hole |-> h1, p2_hole |-> h2]

\* PostflopPoker(flop, r1, r2, starting_pot, starting_stack): the constructor for
\* the solver; reset()
PostflopPoker_ranges(flop, r1, r2, starting_pot, starting_stack) ==
    [PostflopPoker_new EXCEPT !.flop_cards = flop, !.range_p1 = r1, !.range_p2 = r2,
                              !.starting_pot = starting_pot, !.pot = starting_pot,
                              !.starting_stack_p1 = starting_stack,
                              !.starting_stack_p2 = starting_stack,
                              !.stack_p1 = starting_stack, !.stack_p2 = starting_stack]

\* (action_history >> (i * 4)) & 0xF
\* a / b of int operands with b > 0: the quotient is truncated towards zero
IntDiv(a, b) == IF a >= 0 THEN a \div b ELSE 0 - ((0 - a) \div b)

PostflopPoker_history_at(g, i) == (g.action_history[2] \div 16 ^ i) % 16

PostflopPoker_get_last_action(g) ==
    IF g.num_actions = 0 THEN PostflopPoker_CHECK
    ELSE PostflopPoker_history_at(g, g.num_actions - 1)

PostflopPoker_advance_street(g) ==
    [g EXCEPT !.street = CASE g.street = FLOP_BETTING -> TURN_DEAL
                           [] g.street = TURN_BETTING -> RIVER_DEAL
                           [] g.street = RIVER_BETTING -> SHOWDOWN
                           [] OTHER -> g.street,
              !.bet_this_street = 0, !.to_call = 0, !.num_actions = 0]

\* the holes in bits 0..23, turn, river and street from bit 24, the history from bit 40
PostflopPoker_get_state(g) ==
    <<g.turn_card + g.river_card * 2 ^ 6 + g.street * 2 ^ 12 + g.action_history[2] * 2 ^ 16,
      g.p1_hole[1] + g.p1_hole[2] * 2 ^ 6 + g.p2_hole[1] * 2 ^ 12 + g.p2_hole[2] * 2 ^ 18>>

\* own holes in bits 0..11, the flop from bit 12, turn, river, street, history from bit 30
PostflopPoker_get_info_set(g, player) ==
    LET hole == IF player = PLAYER1 THEN g.p1_hole ELSE g.p2_hole
    IN  <<g.flop_cards[3] + g.turn_card * 2 ^ 6 + g.river_card * 2 ^ 12 + g.street * 2 ^ 18
              + g.action_history[2] * 2 ^ 22,
          hole[1] + hole[2] * 2 ^ 6 + g.flop_cards[1] * 2 ^ 12 + g.flop_cards[2] * 2 ^ 18>>

PostflopPoker_game_over(g) == g.street = SHOWDOWN

PostflopPoker_is_chance_player(g) == g.street \in {INITIAL_DEAL, TURN_DEAL, RIVER_DEAL}

PostflopPoker_current_player(g) ==
    LET last_action == PostflopPoker_get_last_action(g)
    IN  CASE PostflopPoker_is_chance_player(g) -> CHANCE
          [] PostflopPoker_game_over(g) -> CHANCE
          [] OTHER ->
               IF g.num_actions = 0 THEN PLAYER1
               ELSE IF last_action = PostflopPoker_FOLD THEN CHANCE
               ELSE IF /\ g.num_actions >= 2
                       /\ last_action = PostflopPoker_CHECK
                       /\ g.to_call = 0
                       /\ PostflopPoker_history_at(g, g.num_actions - 2) = PostflopPoker_CHECK
               THEN CHANCE
               ELSE IF last_action = PostflopPoker_CALL THEN CHANCE
               ELSE IF g.num_actions % 2 = 0 THEN PLAYER1 ELSE PLAYER2

cards_conflict(cards) == Cardinality({cards[k] : k \in 1..Len(cards)}) # Len(cards)

\* the pairs (i, j) of the two nested loops over the ranges whose cards do not conflict
PostflopPoker_deals(g) ==
    LET n1 == Len(g.range_p1)
        n2 == Len(g.range_p2)
        all == [k \in 1..(n1 * n2) |-> <<(k - 1) \div n2, (k - 1) % n2>>]
        free(p) == ~cards_conflict(g.flop_cards \o g.range_p1[p[1] + 1][1]
                                   \o g.range_p2[p[2] + 1][1])
    IN  SelectSeq(all, free)

\* the cards 0..51 that are not in used, in increasing order
PostflopPoker_free_cards(g) ==
    LET used == {g.flop_cards[k] : k \in 1..3}
                    \cup {g.p1_hole[1], g.p1_hole[2], g.p2_hole[1], g.p2_hole[2]}
                    \cup (IF g.turn_card # INVALID_CARD THEN {g.turn_card} ELSE {})
    IN  LET free(c) == c \notin used
        IN  SelectSeq([c \in 1..52 |-> c - 1], free)

PostflopPoker_actions(g) ==
    CASE g.street = INITIAL_DEAL ->
           LET deals == PostflopPoker_deals(g)
           IN  [k \in 1..Len(deals) |->
                   DEAL_HANDS_START + deals[k][1] * Len(g.range_p2) + deals[k][2]]
      [] g.street \in {TURN_DEAL, RIVER_DEAL} -> PostflopPoker_free_cards(g)
      [] OTHER ->
           IF g.to_call > 0
           THEN <<PostflopPoker_FOLD, PostflopPoker_CALL>>
                    \o (IF g.stack_p1 > g.to_call /\ g.stack_p2 > g.to_call
                        THEN <<RAISE_POT>> ELSE <<>>)
                    \o <<ALL_IN>>
           ELSE <<PostflopPoker_CHECK>>
                    \o (IF g.stack_p1 > 0 /\ g.stack_p2 > 0
                        THEN <<BET_HALF_POT, BET_POT>> ELSE <<>>)
                    \o <<ALL_IN>>

\* a range entry is <<cards, probability in millionths>>
PostflopPoker_probas(g) ==
    CASE g.street = INITIAL_DEAL ->
           LET deals == PostflopPoker_deals(g)
           IN  [k \in 1..Len(deals) |->
                   (g.range_p1[deals[k][1] + 1][2] * g.range_p2[deals[k][2] + 1][2])
                       \div 1000000]
      [] g.street \in {TURN_DEAL, RIVER_DEAL} ->
           LET free == PostflopPoker_free_cards(g)
           IN  [k \in 1..Len(free) |-> 1000000 \div Len(free)]
      [] OTHER -> <<>>

\* the betting branch of play: the action is recorded, then the switch
PostflopPoker_bet(g, a) ==
    LET current == PostflopPoker_current_player(g)
        h == [g EXCEPT !.action_history =
                           <<0, BitOr(g.action_history[2], a * 16 ^ g.num_actions)>>,
                       !.num_actions = @ + 1]
        pay(size) == IF current = PLAYER1
                     THEN [h EXCEPT !.pot = @ + size, !.stack_p1 = @ - size]
                     ELSE [h EXCEPT !.pot = @ + size, !.stack_p2 = @ - size]
        all_in == IF current = PLAYER1 THEN g.stack_p1 ELSE g.stack_p2
    IN  CASE a = PostflopPoker_FOLD -> [h EXCEPT !.street = SHOWDOWN]
          [] a = PostflopPoker_CHECK ->
               IF /\ h.to_call = 0
                  /\ h.num_actions >= 2
                  /\ PostflopPoker_get_last_action(h) = PostflopPoker_CHECK
               THEN PostflopPoker_advance_street(h)
               ELSE h
          [] a = PostflopPoker_CALL ->
               PostflopPoker_advance_street([pay(g.to_call) EXCEPT !.to_call = 0])
          [] a = BET_HALF_POT ->
               [pay(IntDiv(g.pot, 2)) EXCEPT !.bet_this_street = IntDiv(g.pot, 2),
                                         !.to_call = IntDiv(g.pot, 2)]
          [] a = BET_POT ->
               [pay(g.pot) EXCEPT !.bet_this_street = g.pot, !.to_call = g.pot]
          [] a = RAISE_POT ->
               [pay(g.pot + g.to_call) EXCEPT
                   !.bet_this_street = @ + g.pot + g.to_call,
                   !.to_call = g.bet_this_street + g.pot + g.to_call]
          [] a = ALL_IN ->
               [pay(all_in) EXCEPT !.to_call = all_in - g.to_call]
          [] OTHER -> h

PostflopPoker_play(g, a) ==
    CASE g.street = INITIAL_DEAL ->
           LET n1 == Len(g.range_p1)
               n2 == Len(g.range_p2)
               combo_idx == a - DEAL_HANDS_START
               dealt == n1 # 0 /\ n2 # 0 /\ combo_idx >= 0 /\ combo_idx < n1 * n2
           IN  [g EXCEPT !.p1_hole = IF dealt THEN g.range_p1[(combo_idx \div n2) + 1][1] ELSE @,
                         !.p2_hole = IF dealt THEN g.range_p2[(combo_idx % n2) + 1][1] ELSE @,
                         !.street = FLOP_BETTING, !.bet_this_street = 0, !.to_call = 0]
      [] g.street = TURN_DEAL ->
           [g EXCEPT !.turn_card = a, !.street = TURN_BETTING,
                     !.bet_this_street = 0, !.to_call = 0]
      [] g.street = RIVER_DEAL ->
           [g EXCEPT !.river_card = a, !.street = RIVER_BETTING,
                     !.bet_this_street = 0, !.to_call = 0]
      [] OTHER -> PostflopPoker_bet(g, a)

\* num_actions--; action_history &= ~(0xF << (num_actions * 4))
PostflopPoker_undo_bet(g) ==
    [g EXCEPT !.num_actions = @ - 1,
              !.action_history =
                  <<0, @[2] - 16 ^ (g.num_actions - 1)
                                  * PostflopPoker_history_at(g, g.num_actions - 1)>>]

PostflopPoker_undo(g, a) ==
    CASE g.street = SHOWDOWN -> [g EXCEPT !.street = RIVER_BETTING]
      [] g.street = RIVER_BETTING ->
           IF g.num_actions > 0 THEN PostflopPoker_undo_bet(g)
           ELSE [g EXCEPT !.street = RIVER_DEAL, !.river_card = INVALID_CARD]
      [] g.street = RIVER_DEAL -> [g EXCEPT !.street = TURN_BETTING]
      [] g.street = TURN_BETTING ->
           IF g.num_actions > 0 THEN PostflopPoker_undo_bet(g)
           ELSE [g EXCEPT !.street = TURN_DEAL, !.turn_card = INVALID_CARD]
      [] g.street = TURN_DEAL -> [g EXCEPT !.street = FLOP_BETTING]
      [] g.street = FLOP_BETTING ->
           IF g.num_actions > 0 THEN PostflopPoker_undo_bet(g)
           ELSE [g EXCEPT !.street = INITIAL_DEAL]
      [] OTHER -> g

\* what evaluate_showdown can return: the winner by the tables of
\* poker_tables.bin, or -1 for a tie
ShowdownResults == {PLAYER1, PLAYER2, 0 - 1}

\* payoff(player), evaluate_showdown() being winner
PostflopPoker_payoff(g, player, winner) ==
    LET folder == IF g.num_actions % 2 = 0 THEN PLAYER2 ELSE PLAYER1
        p1_contribution == g.starting_pot \div 2 + (g.starting_stack_p1 - g.stack_p1)
        my_contribution == g.starting_pot \div 2
                               + (IF player = PLAYER1 THEN g.starting_stack_p1 - g.stack_p1
                                  ELSE g.starting_stack_p2 - g.stack_p2)
    IN  IF PostflopPoker_get_last_action(g) = PostflopPoker_FOLD
        THEN IF player = folder THEN 0 - p1_contribution ELSE g.pot - p1_contribution
        ELSE IF winner = 0 - 1 THEN IntDiv(g.pot, 2) - my_contribution
        ELSE IF player = winner THEN g.pot - my_contribution
        ELSE 0 - my_contribution

(***************************************************************************)
(* The Game a GameTree is instantiated with.                               *)
(***************************************************************************)
Games == {"SimplePoker", "Leduc", "PostflopPoker"}

Game_new(name) ==
    CASE name = "SimplePoker" -> SimplePoker_new
      [] name = "Leduc" -> Leduc_new
      [] name = "PostflopPoker" -> PostflopPoker_new

Game_get_state(name, g) ==
    CASE name = "SimplePoker" -> SimplePoker_get_state(g)
      [] name = "Leduc" -> Leduc_get_state(g)
      [] name = "PostflopPoker" -> PostflopPoker_get_state(g)

Game_current_player(name, g) ==
    CASE name = "SimplePoker" -> SimplePoker_current_player(g)
      [] name = "Leduc" -> Leduc_current_player(g)
      [] name = "PostflopPoker" -> PostflopPoker_current_player(g)

Game_get_info_set(name, g, player) ==
    CASE name = "SimplePoker" -> SimplePoker_get_info_set(g, player)
      [] name = "Leduc" -> Leduc_get_info_set(g, player)
      [] name = "PostflopPoker" -> PostflopPoker_get_info_set(g, player)

Game_game_over(name, g) ==
    CASE name = "SimplePoker" -> SimplePoker_game_over(g)
      [] name = "Leduc" -> Leduc_game_over(g)
      [] name = "PostflopPoker" -> PostflopPoker_game_over(g)

Game_is_chance_player(name, g) ==
    CASE name = "SimplePoker" -> SimplePoker_is_chance_player(g)
      [] name = "Leduc" -> Leduc_is_chance_player(g)
      [] name = "PostflopPoker" -> PostflopPoker_is_chance_player(g)

Game_actions(name, g) ==
    CASE name = "SimplePoker" -> SimplePoker_actions(g)
      [] name = "Leduc" -> Leduc_actions(g)
      [] name = "PostflopPoker" -> PostflopPoker_actions(g)

Game_probas(name, g) ==
    CASE name = "SimplePoker" -> SimplePoker_probas(g)
      [] name = "Leduc" -> Leduc_probas(g)
      [] name = "PostflopPoker" -> PostflopPoker_probas(g)

\* the default-constructed PostflopPoker offers no action: play, undo and
\* payoff are never called on it
Game_play(name, g, a) ==
    CASE name = "SimplePoker" -> SimplePoker_play(g, a)
      [] name = "Leduc" -> Leduc_play(g, a)

Game_undo(name, g, a) ==
    CASE name = "SimplePoker" -> SimplePoker_undo(g, a)
      [] name = "Leduc" -> Leduc_undo(g, a)

Game_payoff(name, g, player) ==
    CASE name = "SimplePoker" -> SimplePoker_payoff(g, player)
      [] name = "Leduc" -> Leduc_payoff(g, player)

\* the game object in the state `state` (set_state on a fresh game)
Game_set_state(name, state) ==
    CASE name = "SimplePoker" -> SimplePoker_set_state(state)
      [] name = "Leduc" -> Leduc_set_state(state)
      [] name = "PostflopPoker" ->
           [PostflopPoker_new EXCEPT
               !.p1_hole = <<WordField(state, 0, 6), WordField(state, 6, 6)>>,
               !.p2_hole = <<WordField(state, 12, 6), WordField(state, 18, 6)>>,
               !.turn_card = WordField(state, 24, 6),
               !.river_card = WordField(state, 30, 6),
               !.street = WordField(state, 36, 4),
               !.action_history = <<0, state[1] \div 2 ^ 16>>]

(***************************************************************************)
(* GameTree::GameTree and build_tree (part_010, the tree with chance       *)
(* nodes).  The recursion of build_tree is run with an explicit stack of   *)
(* the calls that are waiting for a child.  The vectors are 0-based in the *)
(* code: element k of a vector is element k + 1 of the sequence.           *)
(*                                                                         *)
(* build_tree computes get_info_set(current_player()) before it tests      *)
(* game_over().  In Leduc the terminal states with 11 plies index the      *)
(* table of current_player outside its rows, and the value so read then    *)
(* indexes masks: tgOOB is what comes out of it, one of the three masks,   *)
(* a stray word, or a fault that ends the program.                         *)
(***************************************************************************)
OOBOutcomes == {"PLAYER1", "PLAYER2", "CHANCE", "stray", "fault"}

\* the info set build_tree stores for the node of the state of g
build_tree_info_set(name, g, oob) ==
    LET player == Game_current_player(name, g)
    IN  IF player # OutOfTable THEN Game_get_info_set(name, g, player)
        ELSE CASE oob = "PLAYER1" -> Game_get_info_set(name, g, PLAYER1)
               [] oob = "PLAYER2" -> Game_get_info_set(name, g, PLAYER2)
               [] oob = "CHANCE" -> Game_get_info_set(name, g, CHANCE)
               [] oob = "stray" -> WordOr(WordShl(g.nb_plies, 48), WordZero)

Zeros(n) == [k \in 1..n |-> 0]

\* (n << 2) + kind
pack_nb_children(n, kind) == n * 4 + kind

TreeIdle ==
    /\ tgName = "none"
    /\ game = <<>>
    /\ info_sets = <<>>
    /\ actions = <<>>
    /\ nb_children = <<>>
    /\ start_children_and_actions = <<>>
    /\ children = <<>>
    /\ states = <<>>
    /\ tgStack = <<>>
    /\ tgPc = "none"
    /\ tgRet = 0
    /\ tgOOB = "PLAYER1"

\* GameTree(): Game game; build_tree(game) is about to run
TreeInit ==
    /\ tgName \in Games
    /\ game = Game_new(tgName)
    /\ info_sets = <<>>
    /\ actions = <<>>
    /\ nb_children = <<>>
    /\ start_children_and_actions = <<>>
    /\ children = <<>>
    /\ states = <<>>
    /\ tgStack = <<>>
    /\ tgPc = "call"
    /\ tgRet = 0
    /\ tgOOB \in IF tgName = "Leduc" THEN OOBOutcomes ELSE {"PLAYER1"}

\* build_tree from its entry to its first recursive call, or to its return
\* at a terminal state
build_tree_enter ==
    /\ tgPc = "call"
    /\ ~(Game_current_player(tgName, game) = OutOfTable /\ tgOOB = "fault")
    /\ LET root == Len(info_sets)
           info_set == build_tree_info_set(tgName, game, tgOOB)
           start == Len(children)
       IN  /\ states' = Append(states, Game_get_state(tgName, game))
           /\ info_sets' = Append(info_sets, info_set)
           /\ start_children_and_actions' = Append(start_children_and_actions, start)
           /\ IF Game_game_over(tgName, game)
              THEN /\ nb_children' = Append(nb_children, 0)
                   /\ children' = Append(children, Game_payoff(tgName, game, PLAYER1))
                   /\ actions' = Append(actions, 0)
                   /\ tgRet' = root
                   /\ tgPc' = "return"
                   /\ UNCHANGED tgStack
              ELSE IF Game_is_chance_player(tgName, game)
              THEN LET action_list == Game_actions(tgName, game)
                       proba_list == Game_probas(tgName, game)
                       n == Len(action_list)
                   IN  /\ nb_children' = Append(nb_children, pack_nb_children(n, CHANCE))
                       /\ actions' = actions \o action_list \o Zeros(n)
                       /\ children' = children \o Zeros(2 * n)
                       /\ tgStack' = <<[root |-> root, chance |-> TRUE,
                                        action_list |-> action_list,
                                        proba_list |-> proba_list, i |-> 0,
                                        children_index |-> start]>> \o tgStack
                       /\ tgPc' = "loop"
                       /\ UNCHANGED tgRet
              ELSE LET action_list == Game_actions(tgName, game)
                       n == Len(action_list)
                   IN  /\ nb_children' = Append(nb_children,
                               pack_nb_children(n, Game_current_player(tgName, game)))
                       /\ actions' = actions \o action_list
                       /\ children' = children \o Zeros(n)
                       /\ tgStack' = <<[root |-> root, chance |-> FALSE,
                                        action_list |-> action_list,
                                        proba_list |-> <<>>, i |-> 0,
                                        children_index |-> start]>> \o tgStack
                       /\ tgPc' = "loop"
                       /\ UNCHANGED tgRet
    /\ UNCHANGED <<tgName, game, tgOOB>>
    /\ TreeFrame

\* the table and the masks are read outside their bounds and the program stops
build_tree_fault ==
    /\ tgPc = "call"
    /\ Game_current_player(tgName, game) = OutOfTable
    /\ tgOOB = "fault"
    /\ tgPc' = "fault"
    /\ UNCHANGED <<tgName, game, info_sets, actions, nb_children, start_children_and_actions,
                   children, states, tgStack, tgRet, tgOOB>>
    /\ TreeFrame

\* the loop over action_list has a next action a: game.play(a); build_tree(game)
build_tree_play ==
    /\ tgPc = "loop"
    /\ LET f == Head(tgStack)
       IN  /\ f.i < Len(f.action_list)
           /\ game' = Game_play(tgName, game, f.action_list[f.i + 1])
    /\ tgPc' = "call"
    /\ UNCHANGED <<tgName, info_sets, actions, nb_children, start_children_and_actions, children,
                   states, tgStack, tgRet, tgOOB>>
    /\ TreeFrame

\* the call for a child has returned idx: game.undo(a);
\* children[children_index++] = idx, and for a chance node
\* children[children_index++] = proba_list[i]
build_tree_undo ==
    /\ tgPc = "return"
    /\ tgStack # <<>>
    /\ LET f == Head(tgStack)
           a == f.action_list[f.i + 1]
           k == f.children_index
       IN  /\ game' = Game_undo(tgName, game, a)
           /\ children' = IF f.chance
                          THEN [children EXCEPT ![k + 1] = tgRet,
                                                ![k + 2] = f.proba_list[f.i + 1]]
                          ELSE [children EXCEPT ![k + 1] = tgRet]
           /\ tgStack' = <<[f EXCEPT !.i = @ + 1,
                                     !.children_index = IF f.chance THEN @ + 2 ELSE @ + 1]>>
                         \o Tail(tgStack)
    /\ tgPc' = "loop"
    /\ UNCHANGED <<tgName, info_sets, actions, nb_children, start_children_and_actions, states,
                   tgRet, tgOOB>>
    /\ TreeFrame

\* the loop is over: return root
build_tree_exit ==
    /\ tgPc = "loop"
    /\ LET f == Head(tgStack)
       IN  /\ f.i = Len(f.action_list)
           /\ tgRet' = f.root
    /\ tgStack' = Tail(tgStack)
    /\ tgPc' = "return"
    /\ UNCHANGED <<tgName, game, info_sets, actions, nb_children, start_children_and_actions,
                   children, states, tgOOB>>
    /\ TreeFrame

\* the outermost build_tree has returned; the shrink_to_fit calls change no content
GameTree_built ==
    /\ tgPc = "return"
    /\ tgStack = <<>>
    /\ tgPc' = "done"
    /\ UNCHANGED <<tgName, game, info_sets, actions, nb_children, start_children_and_actions,
                   children, states, tgStack, tgRet, tgOOB>>
    /\ TreeFrame

TreeNext ==
    \/ build_tree_enter
    \/ build_tree_fault
    \/ build_tree_play
    \/ build_tree_undo
    \/ build_tree_exit
    \/ GameTree_built

(***************************************************************************)
(* What the tree holds, read as the solvers read it.                       *)
(***************************************************************************)
nb_nodes == Len(info_sets)
Nodes == 0..(nb_nodes - 1)
NodeN(idx) == nb_children[idx + 1] \div 4          \* nb_children[idx] >> 2
NodeKind(idx) == nb_children[idx + 1] % 4         \* nb_children[idx] & 3
NodeStart(idx) == start_children_and_actions[idx + 1]
Child(k) == children[k + 1]                        \* children[k]
Label(k) == actions[k + 1]                         \* actions[k]
InfoSetOf(idx) == info_sets[idx + 1]

\* the game in the state the node was built for
GameAtNode(idx) == Game_set_state(tgName, states[idx + 1])
OverAt(idx) == Game_game_over(tgName, GameAtNode(idx))
ChanceAt(idx) == ~OverAt(idx) /\ Game_is_chance_player(tgName, GameAtNode(idx))
PlayerAt(idx) == ~OverAt(idx) /\ ~Game_is_chance_player(tgName, GameAtNode(idx))
TreeBuilt == tgPc = "done"

(***************************************************************************)
(* Construction of a solver over the built tree: MCCFR::MCCFR and init     *)
(* (part_000), CFRPlus::CFRPlus and init (cfr_plus.h), CFR::CFR,           *)
(* init_idx_to_offset and fill_probas (cfr.h).  The recursion of init      *)
(* visits a node and then its children in order; slStack holds the nodes   *)
(* still to visit, the next one first.  The variables carry the names of   *)
(* part_000; CFRPlus keeps node_idx_to_shard_idx and info_set_to_shard_idx *)
(* in node_idx_to_data_idx and info_set_to_data_idx, CFR keeps             *)
(* idx_to_offset, info_set_to_offset, offset and                           *)
(* probas_regrets_and_strategies in node_idx_to_data_idx,                  *)
(* info_set_to_data_idx, probas_idx and probas.  A std::map is the         *)
(* sequence of its <<key, value>> pairs.  A real number is a rational      *)
(* <<numerator, denominator>>.                                             *)
(***************************************************************************)
Solvers == {"MCCFR", "CFRPlus", "CFR"}

Game_MAX_NB_PLAYER_ACTIONS(name) ==
    CASE name = "SimplePoker" -> MAX_NB_PLAYER_ACTIONS
      [] name = "Leduc" -> 3
      [] name = "PostflopPoker" -> 6

MapHas(map, key) == \E k \in 1..Len(map) : map[k][1] = key
MapGet(map, key) == map[CHOOSE k \in 1..Len(map) : map[k][1] = key][2]

\* the weights tree.children[start + 2*i + 1] of a chance node
ChanceWeights(idx) == [i \in 1..NodeN(idx) |-> Child(NodeStart(idx) + 2 * (i - 1) + 1)]

\* the children of a node, in order: tree.children[start + 2*i] or [start + i]
ChildrenOf(idx) ==
    [i \in 1..NodeN(idx) |->
        IF NodeKind(idx) = CHANCE THEN Child(NodeStart(idx) + 2 * (i - 1))
        ELSE Child(NodeStart(idx) + (i - 1))]

\* the quotient of two ints, as it would be were sum an int
chance_probas_int_division(weights) ==
    [i \in 1..Len(weights) |-> <<weights[i] \div SeqSum(weights), 1>>]

\* sum += weight for every i, then weight / sum for every i
chance_probas(weights) ==
    [i \in 1..Len(weights) |-> <<weights[i], SeqSum(weights)>>]

MCCFR_Shard(name) ==
    [regrets_and_strategies |-> RatZeros(Game_MAX_NB_PLAYER_ACTIONS(name)), lock |-> FALSE]
CFRPlus_Shard == [probas |-> <<>>, regrets |-> <<>>, strategies |-> <<>>, lock |-> FALSE]

SolverIdle ==
    /\ slKind = "none"
    /\ slPc = "none"
    /\ slStack = <<>>
    /\ shards = <<>>
    /\ probas = <<>>
    /\ node_idx_to_data_idx = <<>>
    /\ info_set_to_data_idx = <<>>
    /\ shard_idx = 0
    /\ probas_idx = 0
    /\ tvNode = 0
    /\ tvI = 0
    /\ tvP = <<0, 1>>

\* MCCFR(tree) : shards(tree.nb_nodes()); node_idx_to_data_idx.resize(nb_nodes);
\* init(info_set_to_data_idx, 0, shard_idx, probas_idx) is about to run
MCCFR_MCCFR ==
    /\ TreeBuilt
    /\ slKind = "none"
    /\ slKind' = "MCCFR"
    /\ shards' = [k \in 1..nb_nodes |-> MCCFR_Shard(tgName)]
    /\ node_idx_to_data_idx' = Zeros(nb_nodes)
    /\ info_set_to_data_idx' = <<>>
    /\ shard_idx' = 0
    /\ probas_idx' = 0
    /\ slStack' = <<0>>
    /\ slPc' = "init"
    /\ UNCHANGED <<probas, tvNode, tvI, tvP>>
    /\ SolverFrame

\* one call of MCCFR::init, up to its recursive calls
MCCFR_init ==
    /\ slKind = "MCCFR"
    /\ slPc = "init"
    /\ slStack # <<>>
    /\ LET idx == Head(slStack)
           n == NodeN(idx)
           player == NodeKind(idx)
           info_set == InfoSetOf(idx)
           already_seen == MapHas(info_set_to_data_idx, info_set)
           data_idx == IF already_seen THEN MapGet(info_set_to_data_idx, info_set)
                       ELSE IF player = CHANCE THEN probas_idx ELSE shard_idx
       IN  IF n = 0
           THEN /\ slStack' = Tail(slStack)
                /\ UNCHANGED <<shards, probas, node_idx_to_data_idx, info_set_to_data_idx,
                               shard_idx, probas_idx>>
           ELSE /\ info_set_to_data_idx' =
                      IF already_seen THEN info_set_to_data_idx
                      ELSE Append(info_set_to_data_idx, <<info_set, data_idx>>)
                /\ probas_idx' = IF ~already_seen /\ player = CHANCE THEN probas_idx + n
                                 ELSE probas_idx
                /\ shard_idx' = IF ~already_seen /\ player # CHANCE THEN shard_idx + 1
                                ELSE shard_idx
                /\ shards' = IF ~already_seen /\ player # CHANCE
                             THEN Append(shards, MCCFR_Shard(tgName))
                             ELSE shards
                /\ node_idx_to_data_idx' = [node_idx_to_data_idx EXCEPT ![idx + 1] = data_idx]
                /\ probas' = IF player = CHANCE /\ ~already_seen
                             THEN probas \o chance_probas(ChanceWeights(idx))
                             ELSE probas
                /\ slStack' = ChildrenOf(idx) \o Tail(slStack)
    /\ UNCHANGED <<slKind, slPc, tvNode, tvI, tvP>>
    /\ SolverFrame

\* CFRPlus(tree) : shards(tree.nb_nodes()); node_idx_to_shard_idx.resize(nb_nodes);
\* init(info_set_to_shard_idx, 0) is about to run
CFRPlus_CFRPlus ==
    /\ TreeBuilt
    /\ slKind = "none"
    /\ slKind' = "CFRPlus"
    /\ shards' = [k \in 1..nb_nodes |-> CFRPlus_Shard]
    /\ node_idx_to_data_idx' = Zeros(nb_nodes)
    /\ info_set_to_data_idx' = <<>>
    /\ slStack' = <<0>>
    /\ slPc' = "init"
    /\ UNCHANGED <<probas, shard_idx, probas_idx, tvNode, tvI, tvP>>
    /\ SolverFrame

\* one call of CFRPlus::init, up to its recursive calls
CFRPlus_init ==
    /\ slKind \in {"CFRPlus", "mccfr.h"}
    /\ slPc = "init"
    /\ slStack # <<>>
    /\ LET idx == Head(slStack)
           n == NodeN(idx)
           player == NodeKind(idx)
           info_set == InfoSetOf(idx)
           already_seen == MapHas(info_set_to_data_idx, info_set)
           fresh == IF player = CHANCE
                    THEN [CFRPlus_Shard EXCEPT !.probas = chance_probas(ChanceWeights(idx))]
                    ELSE [CFRPlus_Shard EXCEPT !.regrets = RatZeros(n), !.strategies = RatZeros(n)]
       IN  IF n = 0
           THEN /\ slStack' = Tail(slStack)
                /\ UNCHANGED <<shards, node_idx_to_data_idx, info_set_to_data_idx>>
           ELSE /\ info_set_to_data_idx' =
                      IF already_seen THEN info_set_to_data_idx
                      ELSE Append(info_set_to_data_idx, <<info_set, Len(shards)>>)
                /\ shards' = IF already_seen THEN shards ELSE Append(shards, fresh)
                /\ node_idx_to_data_idx' =
                      [node_idx_to_data_idx EXCEPT
                          ![idx + 1] = IF already_seen
                                       THEN MapGet(info_set_to_data_idx, info_set)
                                       ELSE Len(shards)]
                /\ slStack' = ChildrenOf(idx) \o Tail(slStack)
    /\ UNCHANGED <<slKind, slPc, probas, shard_idx, probas_idx, tvNode, tvI, tvP>>
    /\ SolverFrame

\* CFR(tree): idx_to_offset.resize(nb_nodes); init_idx_to_offset(info_set_to_offset, 0, 0)
\* is about to run
CFR_CFR ==
    /\ TreeBuilt
    /\ slKind = "none"
    /\ slKind' = "CFR"
    /\ node_idx_to_data_idx' = Zeros(nb_nodes)
    /\ info_set_to_data_idx' = <<>>
    /\ probas_idx' = 0
    /\ slStack' = <<0>>
    /\ slPc' = "init"
    /\ UNCHANGED <<shards, probas, shard_idx, tvNode, tvI, tvP>>
    /\ SolverFrame

\* one call of CFR::init_idx_to_offset, up to its recursive calls
CFR_init_idx_to_offset ==
    /\ slKind = "CFR"
    /\ slPc = "init"
    /\ slStack # <<>>
    /\ LET idx == Head(slStack)
           n == NodeN(idx)
           player == NodeKind(idx)
           info_set == InfoSetOf(idx)
           already_seen == MapHas(info_set_to_data_idx, info_set)
       IN  IF n = 0
           THEN /\ slStack' = Tail(slStack)
                /\ UNCHANGED <<node_idx_to_data_idx, info_set_to_data_idx, probas_idx>>
           ELSE /\ info_set_to_data_idx' =
                      IF already_seen THEN info_set_to_data_idx
                      ELSE Append(info_set_to_data_idx, <<info_set, probas_idx>>)
                /\ node_idx_to_data_idx' =
                      [node_idx_to_data_idx EXCEPT
                          ![idx + 1] = IF already_seen
                                       THEN MapGet(info_set_to_data_idx, info_set)
                                       ELSE probas_idx]
                /\ probas_idx' = IF already_seen THEN probas_idx
                                 ELSE IF player = CHANCE THEN probas_idx + n
                                 ELSE probas_idx + 2 * n
                /\ slStack' = ChildrenOf(idx) \o Tail(slStack)
    /\ UNCHANGED <<slKind, slPc, shards, probas, shard_idx, tvNode, tvI, tvP>>
    /\ SolverFrame

\* init_idx_to_offset has returned size: probas_regrets_and_strategies.resize(size);
\* fill_probas(0) is about to run
CFR_resize ==
    /\ slKind = "CFR"
    /\ slPc = "init"
    /\ slStack = <<>>
    /\ probas' = [k \in 1..probas_idx |-> <<0, 1>>]
    /\ slStack' = <<0>>
    /\ slPc' = "fill"
    /\ UNCHANGED <<slKind, shards, node_idx_to_data_idx, info_set_to_data_idx, shard_idx,
                   probas_idx, tvNode, tvI, tvP>>
    /\ SolverFrame

\* one call of CFR::fill_probas, up to its recursive calls
CFR_fill_probas ==
    /\ slKind = "CFR"
    /\ slPc = "fill"
    /\ slStack # <<>>
    /\ LET idx == Head(slStack)
           n == NodeN(idx)
           player == NodeKind(idx)
           offset == node_idx_to_data_idx[idx + 1]
           p == chance_probas(ChanceWeights(idx))
       IN  IF n = 0
           THEN /\ slStack' = Tail(slStack)
                /\ UNCHANGED probas
           ELSE /\ probas' = IF player = CHANCE
                             THEN [k \in 1..Len(probas) |->
                                      IF k - 1 \in offset..(offset + n - 1)
                                      THEN p[k - offset] ELSE probas[k]]
                             ELSE probas
                /\ slStack' = ChildrenOf(idx) \o Tail(slStack)
    /\ UNCHANGED <<slKind, slPc, shards, node_idx_to_data_idx, info_set_to_data_idx, shard_idx,
                   probas_idx, tvNode, tvI, tvP>>
    /\ SolverFrame

\* the constructor returns (shrink_to_fit changes no content)
Solver_constructed ==
    /\ slPc = IF slKind = "CFR" THEN "fill" ELSE "init"
    /\ slStack = <<>>
    /\ slPc' = "ready"
    /\ UNCHANGED <<slKind, slStack, shards, probas, node_idx_to_data_idx, info_set_to_data_idx,
                   shard_idx, probas_idx, tvNode, tvI, tvP>>
    /\ SolverFrame

\* the probability a traversal reads for child i of the chance node idx:
\* probas[node_idx_to_data_idx[idx] + i] (external_sampling_mccfr),
\* shards[node_idx_to_shard_idx[idx]].probas[i] (cfr_plus_iteration),
\* probas_regrets_and_strategies[idx_to_offset[idx] + i] (linear_cfr)
ChanceProba(idx, i) ==
    IF slKind \in {"CFRPlus", "mccfr.h"}
    THEN shards[node_idx_to_data_idx[idx + 1] + 1].probas[i + 1]
    ELSE probas[node_idx_to_data_idx[idx + 1] + i + 1]

ChanceNodes == {idx \in Nodes : NodeN(idx) > 0 /\ NodeKind(idx) = CHANCE}
PlayerNodes == {idx \in Nodes : NodeN(idx) > 0 /\ NodeKind(idx) # CHANCE}

\* a traversal reaches a chance node and reads the probability of a child
Solver_chance_proba ==
    /\ slPc = "ready"
    /\ \E idx \in ChanceNodes :
          \E i \in 0..(NodeN(idx) - 1) :
              /\ tvNode' = idx
              /\ tvI' = i
              /\ tvP' = ChanceProba(idx, i)
    /\ slPc' = "reading"
    /\ UNCHANGED <<slKind, slStack, shards, probas, node_idx_to_data_idx, info_set_to_data_idx,
                   shard_idx, probas_idx>>
    /\ SolverFrame

SolverNext ==
    \/ MCCFR_MCCFR
    \/ MCCFR_init
    \/ CFRPlus_CFRPlus
    \/ CFRPlus_init
    \/ CFR_CFR
    \/ CFR_init_idx_to_offset
    \/ CFR_resize
    \/ CFR_fill_probas
    \/ Solver_constructed
    \/ Solver_chance_proba

(***************************************************************************)
(* C5 - C9.  The built tree and the tables the solvers make of it.         *)
(***************************************************************************)
RECURSIVE Gcd(_, _)
Gcd(a, b) == IF b = 0 THEN a ELSE Gcd(b, a % b)
RatReduce(p) == <<p[1] \div Gcd(p[1], p[2]), p[2] \div Gcd(p[1], p[2])>>
RECURSIVE RatTotal(_)
RatTotal(s) == IF Len(s) = 0 THEN <<0, 1>>
               ELSE RatReduce(RatAdd(RatReduce(s[1]), RatTotal(Tail(s))))

\* the tree is complete and no solver has touched anything yet
TreeJustBuilt == TreeBuilt /\ slKind = "none"

RootIsNodeZero ==
    /\ nb_nodes >= 1
    /\ tgRet = 0
    /\ states[1] = Game_get_state(tgName, Game_new(tgName))
ChildrenAfterParent ==
    \A idx \in Nodes : \A i \in 1..NodeN(idx) : ChildrenOf(idx)[i] \in (idx + 1)..(nb_nodes - 1)
NotOverHasChild == \A idx \in Nodes : ~OverAt(idx) => NodeN(idx) >= 1

\* C5: in every built tree node 0 is the root (the node build_tree returns,
\* made for the initial state of the game), every child index stored for a
\* node is greater than the node's own index, and every node at which the
\* game is not over has fan-out >= 1.
C5_TreeStructure ==
    TreeJustBuilt => RootIsNodeZero /\ ChildrenAfterParent /\ NotOverHasChild

\* C5 without its last part, and the last part for the games that offer an
\* action wherever they are not over: these hold.
C5_RootAndOrder == TreeJustBuilt => RootIsNodeZero /\ ChildrenAfterParent
C5_FanOutWhereActionsExist ==
    TreeJustBuilt /\ tgName # "PostflopPoker" => NotOverHasChild

\* the tree of PostflopPoker is built: one node, not over, without a child
C5_PostflopRoot ==
    /\ TreeJustBuilt
    /\ tgName = "PostflopPoker"
    /\ nb_nodes = 1
    /\ ~OverAt(0)
    /\ NodeN(0) = 0

\* node c was built for the state reached from node idx by action a
IsChildBy(idx, a, c) ==
    /\ c \in Nodes
    /\ states[c + 1] = Game_get_state(tgName, Game_play(tgName, GameAtNode(idx), a))

NodeEncoded(idx) ==
    LET g == GameAtNode(idx)
        n == NodeN(idx)
        start == NodeStart(idx)
        action_list == Game_actions(tgName, g)
    IN  /\ (n = 0) <=> OverAt(idx)
        /\ IF OverAt(idx)
           THEN Child(start) = Game_payoff(tgName, g, PLAYER1)
           ELSE /\ NodeKind(idx) = Game_current_player(tgName, g)
                /\ n = Len(action_list)
                /\ \A i \in 0..(n - 1) : Label(start + i) = action_list[i + 1]
                /\ IF NodeKind(idx) = CHANCE
                   THEN \A i \in 0..(n - 1) :
                           /\ IsChildBy(idx, action_list[i + 1], Child(start + 2 * i))
                           /\ Child(start + 2 * i + 1) = Game_probas(tgName, g)[i + 1]
                   ELSE \A i \in 0..(n - 1) :
                           IsChildBy(idx, action_list[i + 1], Child(start + i))

\* C6: for every node, nb_children & 3 is the kind (the player to move) and
\* nb_children >> 2 the fan-out n; n = 0 exactly when the game is over at the
\* node, and then children[start] is the payoff of player 1; at a chance
\* node children[start + 2i] is the i-th child and children[start + 2i + 1]
\* its weight; at a player node children[start + i] is the i-th child;
\* actions[start + i] is the label of the i-th child.
C6_NodeEncoding == TreeJustBuilt => \A idx \in Nodes : NodeEncoded(idx)

\* the encoding holds in the trees of the games that offer an action
\* wherever they are not over
C6_NodeEncodingWhereActionsExist ==
    TreeJustBuilt /\ tgName # "PostflopPoker" => \A idx \in Nodes : NodeEncoded(idx)

SameActions(a, b) ==
    /\ NodeKind(a) = NodeKind(b)
    /\ NodeN(a) = NodeN(b)
    /\ \A i \in 0..(NodeN(a) - 1) : Label(NodeStart(a) + i) = Label(NodeStart(b) + i)

\* C7: two distinct player nodes of a built tree that carry the same InfoSet
\* have the same acting player, the same number of actions and the same
\* action labels in the same order.
C7_InfoSetConsistency ==
    TreeJustBuilt =>
        \A a \in PlayerNodes : \A b \in PlayerNodes :
            a < b /\ InfoSetOf(a) = InfoSetOf(b) => SameActions(a, b)

\* a built tree in which two distinct player nodes carry the same InfoSet
C7_Witness ==
    /\ TreeJustBuilt
    /\ \E a \in PlayerNodes : \E b \in PlayerNodes :
           a < b /\ InfoSetOf(a) = InfoSetOf(b) /\ SameActions(a, b)

SolverConstructed == slPc = "ready"
HasInfoSetTable == slKind \in {"MCCFR", "CFRPlus"}
EntryOf(idx) == node_idx_to_data_idx[idx + 1]
PlayerInfoSets == {InfoSetOf(idx) : idx \in PlayerNodes}

SameEntryIffSameInfoSet ==
    \A a \in PlayerNodes : \A b \in PlayerNodes :
        a < b => ((EntryOf(a) = EntryOf(b)) <=> (InfoSetOf(a) = InfoSetOf(b)))
EveryEntryTargeted ==
    \A k \in 0..(Len(shards) - 1) : \E idx \in PlayerNodes : EntryOf(idx) = k
NoFurtherEntries == Len(shards) = Cardinality(PlayerInfoSets)

\* C8: after a solver is constructed, the info-set table (shards) has exactly
\* one entry per distinct player InfoSet of the tree: two player nodes have
\* the same entry if and only if they carry the same InfoSet, every entry is
\* the target of some player node, and the table has no further entries.
C8_InfoSetTable ==
    SolverConstructed /\ HasInfoSetTable =>
        /\ \A idx \in PlayerNodes : EntryOf(idx) \in 0..(Len(shards) - 1)
        /\ SameEntryIffSameInfoSet
        /\ NoFurtherEntries
        /\ EveryEntryTargeted

\* what does hold of the table: player nodes share an entry exactly when they
\* share the InfoSet, and the table has the nb_nodes entries it was sized
\* with besides the ones appended during the walk
C8_EntrySharing ==
    SolverConstructed /\ HasInfoSetTable =>
        /\ \A idx \in PlayerNodes : EntryOf(idx) \in 0..(Len(shards) - 1)
        /\ SameEntryIffSameInfoSet
        /\ Len(shards) = nb_nodes + Len(info_set_to_data_idx)
                         - (IF slKind = "MCCFR" THEN Cardinality(ChanceNodes) ELSE 0)

\* a solver with an info-set table has been constructed over a tree with
\* player nodes
C8_Constructed ==
    /\ SolverConstructed
    /\ HasInfoSetTable
    /\ PlayerNodes # {}
    /\ Len(shards) > Cardinality(PlayerInfoSets)

\* the weights the game gives at the state of a chance node
GameWeights(idx) == Game_probas(tgName, GameAtNode(idx))
StoredProbas(idx) == [i \in 1..NodeN(idx) |-> ChanceProba(idx, i - 1)]

\* C9: for every chance node with weights w_0 .. w_{n-1}, the probability
\* the solver has stored for child i, and the one a traversal reads, is
\* w_i / (w_0 + ... + w_{n-1}); the stored probabilities of a chance node sum
\* to 1; the weights (25, 75) and (1, 3) both give (1/4, 3/4).
C9_ChanceProbabilities ==
    /\ SolverConstructed =>
          \A idx \in ChanceNodes :
              /\ \A i \in 1..NodeN(idx) :
                    /\ StoredProbas(idx)[i][2] > 0
                    /\ RatEq(StoredProbas(idx)[i],
                             <<GameWeights(idx)[i], SeqSum(GameWeights(idx))>>)
              /\ RatEq(RatTotal(StoredProbas(idx)), <<1, 1>>)
    /\ slPc = "reading" =>
          /\ tvP[2] > 0
          /\ RatEq(tvP, <<GameWeights(tvNode)[tvI + 1], SeqSum(GameWeights(tvNode))>>)
    /\ \A w \in {<<25, 75>>, <<1, 3>>} :
          /\ RatEq(chance_probas(w)[1], <<1, 4>>)
          /\ RatEq(chance_probas(w)[2], <<3, 4>>)
          /\ RatEq(RatTotal(chance_probas(w)), <<1, 1>>)

\* a traversal of a constructed MCCFR over SimplePoker reads 1/2 for the
\* third deal, whose weight is 50 of 100
C9_Witness ==
    /\ slPc = "reading"
    /\ slKind = "MCCFR"
    /\ tgName = "SimplePoker"
    /\ tvNode = 0
    /\ tvI = 2
    /\ GameWeights(0) = <<25, 25, 50>>
    /\ RatEq(tvP, <<1, 2>>)

(***************************************************************************)
(* C4.                                                                     *)
(***************************************************************************)
RMComputed == rmImpl # "none"
RMNonNegative == \A i \in 1..rmN : rmS[i][1] >= 0 /\ rmS[i][2] > 0
RMSumsToOne == RatEq(RatSum(rmS), <<1, 1>>)
RMUniform == \A i \in 1..rmN : RatEq(rmS[i], <<1, rmN>>)
RMAllZero == \A i \in 1..rmN : Max(rmR[i], 0) = 0
RMAllEqual == \A i, j \in 1..rmN : Max(rmR[i], 0) = Max(rmR[j], 0)

\* C4 as stated: the strategy is non-negative, sums to 1, and is uniform if
\* and only if every max(R[a], 0) is zero.
C4_AsStated ==
    RMComputed => /\ RMNonNegative
                  /\ RMSumsToOne
                  /\ (RMUniform <=> RMAllZero)

\* C4 amended: the strategy computed by regret matching is non-negative and
\* sums to 1; it is uniform if every max(R[a], 0) is zero, and it is uniform
\* exactly when all max(R[a], 0) are equal (equal positive regrets, and n = 1,
\* give the uniform distribution too).
C4_RegretMatching ==
    RMComputed => /\ RMNonNegative
                  /\ RMSumsToOne
                  /\ (RMAllZero => RMUniform)
                  /\ (RMUniform <=> RMAllEqual)

C4_Witness == /\ RMComputed
              /\ rmN = 3
              /\ rmR = <<2, -1, 1>>
              /\ rmS = <<<<2, 3>>, <<0, 3>>, <<1, 3>>>>

(***************************************************************************)
(* One info-set entry of CFRPlus (cfr_plus.h) visited by several threads.  *)
(* A visit is what cfr_plus_iteration does at a player node:               *)
(* get_strategy_from_regrets, (the recursion, which does not touch this    *)
(* entry), add_regrets, add_strategies.                                    *)
(***************************************************************************)
StrategyDeltaValues == {0, 1}   \* pi * s[i] of a visit, never negative
MaxVisits == 2                  \* visits of the node by each thread

CPIdle ==
    /\ cpN = 0
    /\ cpRegrets = <<>>
    /\ cpStrategies = <<>>
    /\ cpLock = FALSE
    /\ cpPc = [t \in Threads |-> "idle"]
    /\ cpI = [t \in Threads |-> 0]
    /\ cpS = [t \in Threads |-> <<>>]
    /\ cpTmp = [t \in Threads |-> 0]
    /\ cpD = [t \in Threads |-> 0]
    /\ cpVisits = [t \in Threads |-> 0]
    /\ cpCommitted = <<>>

\* CFRPlus::init: regrets.resize(n, T{}); strategies.resize(n, T{})
CPInit ==
    /\ cpN \in 1..MAX_NB_PLAYER_ACTIONS
    /\ cpRegrets = [i \in 1..cpN |-> 0]
    /\ cpStrategies = [i \in 1..cpN |-> 0]
    /\ cpLock = FALSE
    /\ cpPc = [t \in Threads |-> "idle"]
    /\ cpI = [t \in Threads |-> 0]
    /\ cpS = [t \in Threads |-> <<>>]
    /\ cpTmp = [t \in Threads |-> 0]
    /\ cpD = [t \in Threads |-> 0]
    /\ cpVisits = [t \in Threads |-> MaxVisits]
    /\ cpCommitted = [i \in 1..cpN |-> 0]

\* the same entry, each thread visiting the node MaxFairVisits times
MaxFairVisits == 1

CPFairInit ==
    /\ cpN \in 1..MAX_NB_PLAYER_ACTIONS
    /\ cpRegrets = [i \in 1..cpN |-> 0]
    /\ cpStrategies = [i \in 1..cpN |-> 0]
    /\ cpLock = FALSE
    /\ cpPc = [t \in Threads |-> "idle"]
    /\ cpI = [t \in Threads |-> 0]
    /\ cpS = [t \in Threads |-> <<>>]
    /\ cpTmp = [t \in Threads |-> 0]
    /\ cpD = [t \in Threads |-> 0]
    /\ cpVisits = [t \in Threads |-> MaxFairVisits]
    /\ cpCommitted = [i \in 1..cpN |-> 0]

\* cfr_plus_iteration reaches the node: shard.get_strategy_from_regrets(s, n)
cfr_plus_visit(t) ==
    /\ cpPc[t] = "idle"
    /\ cpVisits[t] > 0
    /\ cpVisits' = [cpVisits EXCEPT ![t] = @ - 1]
    /\ cpPc' = [cpPc EXCEPT ![t] = "gs_cas"]
    /\ UNCHANGED <<cpN, cpRegrets, cpStrategies, cpLock, cpI, cpS, cpTmp, cpD, cpCommitted>>
    /\ CPFrame

\* the reader enters without the flag (as MCCFR::Shard of part_000 reads)
get_strategy_from_regrets_nolock(t) ==
    /\ cpPc[t] = "gs_cas"
    /\ cpPc' = [cpPc EXCEPT ![t] = "gs_read"]
    /\ cpI' = [cpI EXCEPT ![t] = 0]
    /\ cpS' = [cpS EXCEPT ![t] = <<>>]
    /\ UNCHANGED <<cpN, cpRegrets, cpStrategies, cpLock, cpTmp, cpD, cpVisits, cpCommitted>>
    /\ CPFrame

\* while (!lock.compare_exchange_strong(expected, true)) expected = false;
get_strategy_from_regrets_cas(t) ==
    /\ cpPc[t] = "gs_cas"
    /\ ~cpLock
    /\ cpLock' = TRUE
    /\ cpPc' = [cpPc EXCEPT ![t] = "gs_read"]
    /\ cpI' = [cpI EXCEPT ![t] = 0]
    /\ cpS' = [cpS EXCEPT ![t] = <<>>]
    /\ UNCHANGED <<cpN, cpRegrets, cpStrategies, cpTmp, cpD, cpVisits, cpCommitted>>
    /\ CPFrame

\* the reader leaves with the flag still set
get_strategy_from_regrets_read_keeps_flag(t) ==
    /\ cpPc[t] = "gs_read"
    /\ IF cpI[t] < cpN
       THEN /\ cpI' = [cpI EXCEPT ![t] = @ + 1]
            /\ cpS' = [cpS EXCEPT ![t] = Append(@, Max(cpRegrets[cpI[t] + 1], 0))]
            /\ UNCHANGED <<cpLock, cpPc>>
       ELSE /\ cpPc' = [cpPc EXCEPT ![t] = "gs_norm"]
            /\ UNCHANGED <<cpLock, cpS, cpI>>
    /\ UNCHANGED <<cpN, cpRegrets, cpStrategies, cpTmp, cpD, cpVisits, cpCommitted>>
    /\ CPFrame

\* s[i] = std::max(regrets[i], T{}); sum += s[i];  then lock.store(false)
get_strategy_from_regrets_read(t) ==
    /\ cpPc[t] = "gs_read"
    /\ IF cpI[t] < cpN
       THEN /\ cpI' = [cpI EXCEPT ![t] = @ + 1]
            /\ cpS' = [cpS EXCEPT ![t] = Append(@, Max(cpRegrets[cpI[t] + 1], 0))]
            /\ UNCHANGED <<cpLock, cpPc>>
       ELSE /\ cpLock' = FALSE
            /\ cpPc' = [cpPc EXCEPT ![t] = "gs_norm"]
            /\ UNCHANGED <<cpS, cpI>>
    /\ UNCHANGED <<cpN, cpRegrets, cpStrategies, cpTmp, cpD, cpVisits, cpCommitted>>
    /\ CPFrame

\* s[i] /= sum, or s[i] = 1/n; the recursion follows, then add_regrets
get_strategy_from_regrets_norm(t) ==
    /\ cpPc[t] = "gs_norm"
    /\ cpPc' = [cpPc EXCEPT ![t] = "ar_cas"]
    /\ cpS' = [cpS EXCEPT ![t] = cfr_plus_normalise(@, cpN)]
    /\ UNCHANGED <<cpN, cpRegrets, cpStrategies, cpLock, cpI, cpTmp, cpD, cpVisits,
                   cpCommitted>>
    /\ CPFrame

\* add_regrets: while (!lock.compare_exchange_strong(expected, true)) ...
add_regrets_cas(t) ==
    /\ cpPc[t] = "ar_cas"
    /\ ~cpLock
    /\ cpLock' = TRUE
    /\ cpPc' = [cpPc EXCEPT ![t] = "ar_read"]
    /\ cpI' = [cpI EXCEPT ![t] = 0]
    /\ UNCHANGED <<cpN, cpRegrets, cpStrategies, cpS, cpTmp, cpD, cpVisits, cpCommitted>>
    /\ CPFrame

\* regrets[i] + regret_values[i], the read; after the last i, lock.store(false)
add_regrets_read(t) ==
    /\ cpPc[t] = "ar_read"
    /\ IF cpI[t] < cpN
       THEN /\ \E d \in DeltaValues : cpD' = [cpD EXCEPT ![t] = d]
            /\ cpTmp' = [cpTmp EXCEPT ![t] = cpRegrets[cpI[t] + 1]]
            /\ cpPc' = [cpPc EXCEPT ![t] = "ar_write"]
            /\ UNCHANGED <<cpLock, cpCommitted>>
       ELSE /\ cpLock' = FALSE
            /\ cpCommitted' = cpRegrets
            /\ cpPc' = [cpPc EXCEPT ![t] = "as_cas"]
            /\ cpD' = [cpD EXCEPT ![t] = 0]
            /\ cpTmp' = [cpTmp EXCEPT ![t] = 0]
    /\ UNCHANGED <<cpN, cpRegrets, cpStrategies, cpI, cpS, cpVisits>>
    /\ CPFrame

\* the sum is stored as it is (MCCFR::Shard::add_regrets of mccfr.h)
add_regrets_value_unfloored(old, delta) == old + delta

\* CFR+ key difference: regrets are floored at 0
add_regrets_value(old, delta) == Max(0, old + delta)

\* regrets[i] = std::max(T{}, regrets[i] + regret_values[i]), the write
add_regrets_write(t) ==
    /\ cpPc[t] = "ar_write"
    /\ cpRegrets' = [cpRegrets EXCEPT ![cpI[t] + 1] = add_regrets_value(cpTmp[t], cpD[t])]
    /\ cpI' = [cpI EXCEPT ![t] = @ + 1]
    /\ cpPc' = [cpPc EXCEPT ![t] = "ar_read"]
    /\ UNCHANGED <<cpN, cpStrategies, cpLock, cpS, cpTmp, cpD, cpVisits, cpCommitted>>
    /\ CPFrame

\* add_strategies: while (!lock.compare_exchange_strong(expected, true)) ...
add_strategies_cas(t) ==
    /\ cpPc[t] = "as_cas"
    /\ ~cpLock
    /\ cpLock' = TRUE
    /\ cpPc' = [cpPc EXCEPT ![t] = "as_read"]
    /\ cpI' = [cpI EXCEPT ![t] = 0]
    /\ UNCHANGED <<cpN, cpRegrets, cpStrategies, cpS, cpTmp, cpD, cpVisits, cpCommitted>>
    /\ CPFrame

\* strategies[i] += strategy_values[i], the read; after the last i, lock.store(false)
add_strategies_read(t) ==
    /\ cpPc[t] = "as_read"
    /\ IF cpI[t] < cpN
       THEN /\ \E d \in StrategyDeltaValues : cpD' = [cpD EXCEPT ![t] = d]
            /\ cpTmp' = [cpTmp EXCEPT ![t] = cpStrategies[cpI[t] + 1]]
            /\ cpPc' = [cpPc EXCEPT ![t] = "as_write"]
            /\ UNCHANGED <<cpLock, cpI, cpS>>
       ELSE /\ cpLock' = FALSE
            /\ cpPc' = [cpPc EXCEPT ![t] = "idle"]
            /\ cpD' = [cpD EXCEPT ![t] = 0]
            /\ cpTmp' = [cpTmp EXCEPT ![t] = 0]
            /\ cpI' = [cpI EXCEPT ![t] = 0]
            /\ cpS' = [cpS EXCEPT ![t] = <<>>]
    /\ UNCHANGED <<cpN, cpRegrets, cpStrategies, cpVisits, cpCommitted>>
    /\ CPFrame

\* strategies[i] += strategy_values[i], the write
add_strategies_write(t) ==
    /\ cpPc[t] = "as_write"
    /\ cpStrategies' = [cpStrategies EXCEPT ![cpI[t] + 1] = cpTmp[t] + cpD[t]]
    /\ cpI' = [cpI EXCEPT ![t] = @ + 1]
    /\ cpPc' = [cpPc EXCEPT ![t] = "as_read"]
    /\ UNCHANGED <<cpN, cpRegrets, cpLock, cpS, cpTmp, cpD, cpVisits, cpCommitted>>
    /\ CPFrame

CPNext ==
    \E t \in Threads :
        \/ cfr_plus_visit(t)
        \/ get_strategy_from_regrets_cas(t)
        \/ get_strategy_from_regrets_read(t)
        \/ get_strategy_from_regrets_norm(t)
        \/ add_regrets_cas(t)
        \/ add_regrets_read(t)
        \/ add_regrets_write(t)
        \/ add_strategies_cas(t)
        \/ add_strategies_read(t)
        \/ add_strategies_write(t)

(***************************************************************************)
(* C2, C3.                                                                 *)
(***************************************************************************)
\* the steps of one worker thread
CPThread(t) ==
    \/ cfr_plus_visit(t)
    \/ get_strategy_from_regrets_cas(t)
    \/ get_strategy_from_regrets_read(t)
    \/ get_strategy_from_regrets_norm(t)
    \/ add_regrets_cas(t)
    \/ add_regrets_read(t)
    \/ add_regrets_write(t)
    \/ add_strategies_cas(t)
    \/ add_strategies_read(t)
    \/ add_strategies_write(t)

\* every OpenMP worker is a thread of the operating system, which runs each
\* thread that can take a step; each step of a thread changes its position
CPPosition == <<cpPc, cpI>>
CPFairness == \A t \in Threads : WF_CPPosition(CPThread(t))

CPHoldsFlag(t) == cpPc[t] \in {"gs_read", "ar_read", "ar_write", "as_read", "as_write"}
CPAdding(t) == cpPc[t] \in {"ar_read", "ar_write"}
CPReading(t) == cpPc[t] = "gs_read"

\* C2: get_strategy_from_regrets and add_regrets on one entry exclude each
\* other: no two threads are inside the flag at once (so two add_regrets never
\* overlap), and every element a reader has taken is the clamp of the regrets
\* as the last completed add_regrets left them, never of a half-applied one.
C2_MutualExclusion ==
    /\ \A t, u \in Threads : (t # u /\ CPHoldsFlag(t)) => ~CPHoldsFlag(u)
    /\ \A t \in Threads :
          CPReading(t) =>
              /\ \A u \in Threads : ~CPAdding(u)
              /\ \A j \in 1..cpI[t] : cpS[t][j] = Max(cpCommitted[j], 0)

\* a reader has taken one of two elements of regrets an earlier add_regrets
\* changed, while another thread waits for the flag to add
C2_Witness ==
    /\ cpN = 2
    /\ \E t, u \in Threads :
          /\ cpPc[t] = "gs_read" /\ cpI[t] = 1 /\ cpS[t] = <<2>>
          /\ cpPc[u] = "ar_cas"
          /\ cpCommitted = <<2, 2>>

\* C3: under CFR+ every regret of the entry is >= 0 in every reachable state,
\* in the middle of an add_regrets too.
C3_Monotonicity == \A i \in 1..cpN : cpRegrets[i] >= 0

\* add_regrets has just stored a regret whose sum with the delta was negative
C3_Witness ==
    \E t \in Threads :
        /\ cpPc[t] = "ar_read"
        /\ cpI[t] >= 1
        /\ cpTmp[t] + cpD[t] < 0
        /\ cpRegrets[cpI[t]] = 0

(***************************************************************************)
(* The MCCFR solve loops: solve_external_sampling and                      *)
(* solve_outcome_sampling of part_000 number an iteration by               *)
(* iter.fetch_add(1) on an atomic that starts at 1; solve of mccfr.h       *)
(* numbers it by the loop index i of `#pragma omp for`, which starts at 0. *)
(* The OpenMP runtime may hand any index not yet run to any idle thread.   *)
(***************************************************************************)
\* the two-by-two alternation a slip of the parity test would give
UpdatingPlayer_halved(number) == IF (number \div 2) % 2 = 0 THEN PLAYER1 ELSE PLAYER2

\* (current_iter % 2 == 0) ? PLAYER1 : PLAYER2
UpdatingPlayer(number) == IF number % 2 = 0 THEN PLAYER1 ELSE PLAYER2

\* the indices of the for loop
LoopIndices == IF svImpl = "mccfr.h" THEN 0..(svN - 1) ELSE 1..svN

SVIdle ==
    /\ svImpl = "none"
    /\ svN = 0
    /\ svIter = 0
    /\ svTaken = {}
    /\ svPc = [t \in Threads |-> "idle"]
    /\ svI = [t \in Threads |-> 0]
    /\ svCur = [t \in Threads |-> 0]
    /\ svPlayer = [t \in Threads |-> PLAYER1]
    /\ svLog = <<>>

\* std::atomic<int> iter{1};  (mccfr.h: std::atomic<int> iter{};)
SVInit ==
    /\ svImpl \in {"external", "outcome", "mccfr.h"}
    /\ svN \in 1..MaxIterations
    /\ svIter = IF svImpl = "mccfr.h" THEN 0 ELSE 1
    /\ svTaken = {}
    /\ svPc = [t \in Threads |-> "idle"]
    /\ svI = [t \in Threads |-> 0]
    /\ svCur = [t \in Threads |-> 0]
    /\ svPlayer = [t \in Threads |-> PLAYER1]
    /\ svLog = <<>>

\* part_000: a thread gets an index of the loop and enters the body
solve_sampling_take(t) ==
    /\ svImpl \in {"external", "outcome"}
    /\ svPc[t] = "idle"
    /\ \E i \in LoopIndices \ svTaken :
          /\ svTaken' = svTaken \cup {i}
          /\ svI' = [svI EXCEPT ![t] = i]
    /\ svPc' = [svPc EXCEPT ![t] = "fetch"]
    /\ UNCHANGED <<svImpl, svN, svIter, svCur, svPlayer, svLog>>
    /\ SVFrame

\* current_iter = iter.fetch_add(1); updating_player = ...; the traversal begins
solve_sampling_fetch_add(t) ==
    /\ svPc[t] = "fetch"
    /\ svCur' = [svCur EXCEPT ![t] = svIter]
    /\ svIter' = svIter + 1
    /\ svPlayer' = [svPlayer EXCEPT ![t] = UpdatingPlayer(svIter)]
    /\ svLog' = Append(svLog, <<svIter, UpdatingPlayer(svIter)>>)
    /\ svPc' = [svPc EXCEPT ![t] = "traverse"]
    /\ UNCHANGED <<svImpl, svN, svTaken, svI>>
    /\ SVFrame

\* external_sampling_mccfr / outcome_sampling_mccfr(0, updating_player, ...) returns
solve_sampling_traverse(t) ==
    /\ svImpl \in {"external", "outcome"}
    /\ svPc[t] = "traverse"
    /\ svPc' = [svPc EXCEPT ![t] = "idle"]
    /\ UNCHANGED <<svImpl, svN, svIter, svTaken, svI, svCur, svPlayer, svLog>>
    /\ SVFrame

\* mccfr.h: a thread gets an index i; traversing_player = (i % 2 == 0) ? ...
solve_take(t) ==
    /\ svImpl = "mccfr.h"
    /\ svPc[t] = "idle"
    /\ \E i \in LoopIndices \ svTaken :
          /\ svTaken' = svTaken \cup {i}
          /\ svI' = [svI EXCEPT ![t] = i]
          /\ svCur' = [svCur EXCEPT ![t] = i]
          /\ svPlayer' = [svPlayer EXCEPT ![t] = UpdatingPlayer(i)]
          /\ svLog' = Append(svLog, <<i, UpdatingPlayer(i)>>)
    /\ svPc' = [svPc EXCEPT ![t] = "traverse"]
    /\ UNCHANGED <<svImpl, svN, svIter>>
    /\ SVFrame

\* mccfr.h: outcome_sampling(0, traversing_player, ...) returns; ++iter
solve_traverse(t) ==
    /\ svImpl = "mccfr.h"
    /\ svPc[t] = "traverse"
    /\ svIter' = svIter + 1
    /\ svPc' = [svPc EXCEPT ![t] = "idle"]
    /\ UNCHANGED <<svImpl, svN, svTaken, svI, svCur, svPlayer, svLog>>
    /\ SVFrame

SVNext ==
    \E t \in Threads :
        \/ solve_sampling_take(t)
        \/ solve_sampling_fetch_add(t)
        \/ solve_sampling_traverse(t)
        \/ solve_take(t)
        \/ solve_traverse(t)

(***************************************************************************)
(* C10.                                                                    *)
(***************************************************************************)
SVFinished == svTaken = LoopIndices /\ \A t \in Threads : svPc[t] = "idle"
SVCount(player) == Cardinality({k \in 1..Len(svLog) : svLog[k][2] = player})

\* C10: in an MCCFR run every traversal has one updating player, fixed by the
\* parity of its iteration number (even -> P1, odd -> P2); the numbers are
\* unique, so traversals with consecutive numbers update different players,
\* and when the N iterations are over the numbers of P1 and P2 traversals
\* differ by at most one, whatever the threads' interleaving.
C10_Alternation ==
    /\ \A k \in 1..Len(svLog) :
          svLog[k][2] = (IF svLog[k][1] % 2 = 0 THEN PLAYER1 ELSE PLAYER2)
    /\ \A k, l \in 1..Len(svLog) :
          /\ (k # l) => svLog[k][1] # svLog[l][1]
          /\ (svLog[k][1] = svLog[l][1] + 1) => svLog[k][2] # svLog[l][2]
    /\ \A t \in Threads :
          svPc[t] = "traverse" =>
              \E k \in 1..Len(svLog) : svLog[k] = <<svCur[t], svPlayer[t]>>
    /\ SVFinished =>
          /\ Len(svLog) = svN
          /\ SVCount(PLAYER1) - SVCount(PLAYER2) \in {-1, 0, 1}

\* a finished run of three iterations whose traversals did not begin in the
\* order of their numbers
C10_Witness ==
    /\ SVFinished
    /\ svN = 3
    /\ Len(svLog) = 3
    /\ svLog[1][1] > svLog[2][1]
    /\ SVCount(PLAYER1) # SVCount(PLAYER2)

(***************************************************************************)
(* The loops of CFR::solve: part_006 runs the iterations under             *)
(* "#pragma omp parallel for", cfr.h has the pragma commented out and runs *)
(* them on one thread.  Both pass the value of the atomic iter to          *)
(* linear_cfr and increment it after the traversal.                        *)
(***************************************************************************)
\* std::atomic<int> iter{}; the loop is about to run
CFRSolveInit ==
    /\ svImpl \in {"external", "outcome", "part_006", "cfr.h"}
    /\ svN \in 1..MaxIterations
    /\ svIter = IF svImpl \in {"part_006", "cfr.h"} THEN 0 ELSE 1
    /\ svTaken = {}
    /\ svPc = [t \in Threads |-> "idle"]
    /\ svI = [t \in Threads |-> 0]
    /\ svCur = [t \in Threads |-> 0]
    /\ svPlayer = [t \in Threads |-> PLAYER1]
    /\ svLog = <<>>

\* the threads that run the loop
CFR_solve_threads == IF svImpl = "cfr.h" THEN {1} ELSE Threads

\* the index the thread gets: any index left under omp, the next one without
CFR_solve_indices ==
    IF svImpl = "cfr.h"
    THEN {i \in LoopIndices \ svTaken : \A j \in LoopIndices \ svTaken : i <= j}
    ELSE LoopIndices \ svTaken

\* a thread gets an index of the loop, reads iter and calls
\* linear_cfr(0, 1, 1, 1, iter)
CFR_solve_call(t) ==
    /\ svImpl \in {"part_006", "cfr.h"}
    /\ t \in CFR_solve_threads
    /\ svPc[t] = "idle"
    /\ \E i \in CFR_solve_indices :
          /\ svTaken' = svTaken \cup {i}
          /\ svI' = [svI EXCEPT ![t] = i]
    /\ svCur' = [svCur EXCEPT ![t] = svIter]
    /\ svLog' = Append(svLog, <<svIter>>)
    /\ svPc' = [svPc EXCEPT ![t] = "traverse"]
    /\ UNCHANGED <<svImpl, svN, svIter, svPlayer>>
    /\ SVFrame

\* linear_cfr returns: game_value += ...; ++iter
CFR_solve_increment(t) ==
    /\ svImpl \in {"part_006", "cfr.h"}
    /\ svPc[t] = "traverse"
    /\ svIter' = svIter + 1
    /\ svPc' = [svPc EXCEPT ![t] = "idle"]
    /\ UNCHANGED <<svImpl, svN, svTaken, svI, svCur, svPlayer, svLog>>
    /\ SVFrame

CFRSolveNext ==
    \E t \in Threads :
        \/ solve_sampling_take(t)
        \/ solve_sampling_fetch_add(t)
        \/ solve_sampling_traverse(t)
        \/ CFR_solve_call(t)
        \/ CFR_solve_increment(t)

(***************************************************************************)
(* C12, C13 (the tags).                                                    *)
(***************************************************************************)
TagsDistinct == \A k, l \in 1..Len(svLog) : (k # l) => svLog[k][1] # svLog[l][1]

\* C12: within one call of solve(N) every iteration gets an iteration tag
\* that differs from the tag of every other iteration of the call, whatever
\* the number of threads and their interleaving.
C12_DistinctTags == TagsDistinct

\* the tags are distinct where they come from fetch_add or from one thread
C12_DistinctTagsFetchAdd == svImpl # "part_006" => TagsDistinct

\* two threads of part_006 are in linear_cfr with the same tag
C12_SameTagTwice ==
    /\ svImpl = "part_006"
    /\ \E t, u \in Threads : t # u /\ svPc[t] = "traverse" /\ svPc[u] = "traverse"
                             /\ svCur[t] = svCur[u]

(***************************************************************************)
(* The iterations of the solvers over the tree of SimplePoker.  A          *)
(* traversal function is run by one thread with an explicit stack: a call  *)
(* runs from its entry to its first recursive call or to its return, and a *)
(* return resumes the caller up to its next recursive call or its own      *)
(* return, the accumulation into the table included.  The reals are exact  *)
(* rationals in lowest terms.  Their terms outgrow the integers of the     *)
(* checker once an iteration starts from a table an earlier iteration has  *)
(* changed, so such an iteration is followed for MaxFollowCalls calls.     *)
(***************************************************************************)
MaxKernelIterations == 2
MaxFollowCalls == 12

NoPlayer == 0 - 1
Abs(a) == IF a < 0 THEN 0 - a ELSE a
RatNorm(p) == <<p[1] \div Gcd(Abs(p[1]), p[2]), p[2] \div Gcd(Abs(p[1]), p[2])>>
RatOne == <<1, 1>>
RatNil == <<0, 1>>
RatMul(p, q) == RatNorm(<<p[1] * q[1], p[2] * q[2]>>)
RatPlus(p, q) == RatNorm(RatAdd(p, q))
RatMinus(p, q) == RatNorm(RatAdd(p, <<0 - q[1], q[2]>>))
RatNeg(p) == <<0 - p[1], p[2]>>
RatDiv(p, q) == IF q[1] > 0 THEN RatNorm(<<p[1] * q[2], p[2] * q[1]>>)
                ELSE RatNorm(<<(0 - p[1]) * q[2], p[2] * (0 - q[1])>>)
RatMax0(p) == IF p[1] > 0 THEN p ELSE RatNil
RECURSIVE RatSeqSum(_)
RatSeqSum(s) == IF Len(s) = 0 THEN RatNil ELSE RatPlus(s[1], RatSeqSum(Tail(s)))

\* regret matching on real regrets: s[i] = max(R[i], 0) / sum if sum > 0, else 1/n
regret_matching(R, n) ==
    LET s == [i \in 1..n |-> RatMax0(R[i])]
        sum == RatSeqSum(s)
    IN  IF sum[1] > 0 THEN [i \in 1..n |-> RatDiv(s[i], sum)]
                      ELSE [i \in 1..n |-> <<1, n>>]

KernelIdle ==
    /\ kImpl = "none"
    /\ kPc = "none"
    /\ kArgs = [idx |-> 0, pi1 |-> RatOne, pi2 |-> RatOne, pc |-> RatOne]
    /\ kStack = <<>>
    /\ kRet = RatNil
    /\ kCount = 0
    /\ kTag = 0
    /\ kPlayer = NoPlayer
    /\ kBudget = 0
    /\ kVisited = {}
    /\ kPruned = {}
    /\ kLog = <<>>
    /\ kBeyond = <<>>
    /\ kOOB = "none"
    /\ kStrategy = [info_set_to_idx |-> <<>>, info_set_to_nb_actions |-> <<>>,
                    actions |-> <<>>, strategies |-> <<>>]

\* some accumulation so far has changed the table
TableChanged ==
    \E k \in 1..Len(kLog) :
        \E i \in 1..kLog[k].n : kLog[k].dr[i][1] # 0 \/ kLog[k].ds[i][1] # 0

\* the regrets and the cumulative strategies the table holds for a player node
HasShardVectors == slKind \in {"CFRPlus", "mccfr.h"}
NodeRegrets(idx) ==
    CASE slKind = "CFR" ->
             [i \in 1..NodeN(idx) |-> probas[node_idx_to_data_idx[idx + 1] + i]]
      [] slKind = "MCCFR" ->
             [i \in 1..NodeN(idx) |->
                 shards[node_idx_to_data_idx[idx + 1] + 1].regrets_and_strategies[i]]
      [] OTHER -> shards[node_idx_to_data_idx[idx + 1] + 1].regrets
NodeStrategies(idx) ==
    IF slKind = "CFR"
    THEN [i \in 1..NodeN(idx) |-> probas[node_idx_to_data_idx[idx + 1] + NodeN(idx) + i]]
    ELSE shards[node_idx_to_data_idx[idx + 1] + 1].strategies

\* regrets[i] += dr[i]; strategies[i] += ds[i]  (probas_regrets_and_strategies)
probas_accumulate(idx, dr, ds) ==
    LET offset == node_idx_to_data_idx[idx + 1]
        n == NodeN(idx)
    IN  [k \in 1..Len(probas) |->
            IF k \in (offset + 1)..(offset + n) THEN RatPlus(probas[k], dr[k - offset])
            ELSE IF k \in (offset + n + 1)..(offset + 2 * n)
                 THEN RatPlus(probas[k], ds[k - offset - n])
            ELSE probas[k]]

\* Shard::add_regrets of cfr_plus.h: regrets[i] = std::max(T{}, regrets[i] + values[i])
add_regrets_floor(regrets, values, n) ==
    [i \in 1..n |-> RatMax0(RatPlus(regrets[i], values[i]))]
\* Shard::add_regrets of mccfr.h: regrets[i] += regret_values[i]
add_regrets_plain(regrets, values, n) ==
    [i \in 1..n |-> RatPlus(regrets[i], values[i])]
\* Shard::add_strategies: strategies[i] += values[i]
add_strategies(strategies, values, n) ==
    [i \in 1..n |-> RatPlus(strategies[i], values[i])]

shards_accumulate(idx, dr, ds) ==
    LET e == node_idx_to_data_idx[idx + 1] + 1
        n == NodeN(idx)
    IN  [shards EXCEPT
            ![e].regrets = IF slKind = "CFRPlus" THEN add_regrets_floor(@, dr, n)
                           ELSE add_regrets_plain(@, dr, n),
            ![e].strategies = add_strategies(@, ds, n)]

\* the probability stored for child i (from 0) of a chance node
KernelProba(idx, i) == ChanceProba(idx, i)

\* the record of an accumulation at the node of frame f
LogRecord(f, u, utils, dr, ds) ==
    [k |-> kCount, tag |-> kTag, updating |-> kPlayer, node |-> f.idx,
     player |-> NodeKind(f.idx), entry |-> node_idx_to_data_idx[f.idx + 1],
     n |-> NodeN(f.idx), s |-> f.s, pi1 |-> f.pi1, pi2 |-> f.pi2, pc |-> f.pc,
     sampled |-> f.sampled, u |-> u, utils |-> utils, dr |-> dr, ds |-> ds]

NewFrame(a, s, sampled) ==
    [idx |-> a.idx, pi1 |-> a.pi1, pi2 |-> a.pi2, pc |-> a.pc, i |-> 0, u |-> RatNil,
     utils |-> <<>>, s |-> s, sampled |-> sampled]

\* the budget of calls of an iteration that is about to begin
IterationBudget == IF TableChanged THEN MaxFollowCalls ELSE nb_nodes

\* what a traversal leaves alone in the solver
SolverMaps == <<slKind, slPc, slStack, node_idx_to_data_idx, info_set_to_data_idx, shard_idx,
                probas_idx, tvNode, tvI, tvP>>

\* child i (from 0) of a node: tree.children[start + 2*i] or tree.children[start + i]
KernelChild(idx, i) == ChildrenOf(idx)[i + 1]

\* the arguments of the recursive call for child i of the node of frame f, in a
\* traversal of the whole tree:  (child, pi1, pi2, pc * p) at a chance node,
\* (child, s[i] * pi1, pi2, pc) at a node of PLAYER1, (child, pi1, s[i] * pi2, pc)
\* at a node of PLAYER2
full_child_args(f, i) ==
    LET player == NodeKind(f.idx)
    IN  [idx |-> KernelChild(f.idx, i),
         pi1 |-> IF player = PLAYER1 THEN RatMul(f.s[i + 1], f.pi1) ELSE f.pi1,
         pi2 |-> IF player = PLAYER2 THEN RatMul(f.s[i + 1], f.pi2) ELSE f.pi2,
         pc |-> IF player = CHANCE THEN RatMul(f.pc, KernelProba(f.idx, i)) ELSE f.pc]

\* linear_cfr: regrets[i] += iter * pi_opp * pc * (utils[i] - u), with the sign
\* turned at a node of PLAYER2
linear_cfr_regret_updates(f, u, utils) ==
    [i \in 1..NodeN(f.idx) |->
        IF NodeKind(f.idx) = PLAYER1
        THEN RatMul(RatMul(RatMul(<<kTag, 1>>, f.pi2), f.pc), RatMinus(utils[i], u))
        ELSE RatMul(RatMul(RatMul(<<kTag, 1>>, f.pi1), f.pc), RatMinus(u, utils[i]))]
\* linear_cfr: strategies[i] += iter * pi_own * s[i]
linear_cfr_strategy_updates(f) ==
    [i \in 1..NodeN(f.idx) |->
        IF NodeKind(f.idx) = PLAYER1 THEN RatMul(RatMul(<<kTag, 1>>, f.pi1), f.s[i])
        ELSE RatMul(RatMul(<<kTag, 1>>, f.pi2), f.s[i])]

\* cfr_plus_iteration: regret_updates[i] = pi_opp * pc * (utils[i] - u), with the
\* sign turned at a node of PLAYER2
cfr_plus_regret_updates(f, u, utils) ==
    [i \in 1..NodeN(f.idx) |->
        IF NodeKind(f.idx) = PLAYER1
        THEN RatMul(RatMul(f.pi2, f.pc), RatMinus(utils[i], u))
        ELSE RatMul(RatMul(f.pi1, f.pc), RatMinus(u, utils[i]))]
\* cfr_plus_iteration: strategy_updates[i] = pi_own * s[i]
cfr_plus_strategy_updates(f) ==
    [i \in 1..NodeN(f.idx) |->
        IF NodeKind(f.idx) = PLAYER1 THEN RatMul(f.pi1, f.s[i]) ELSE RatMul(f.pi2, f.s[i])]

\* a traversal of the whole tree from its entry to its first recursive call, or
\* to its return where it prunes or stands at a terminal node
full_traversal_call(fn) ==
    /\ kImpl = fn
    /\ kPc = "call"
    /\ kBudget > 0
    /\ kBudget' = kBudget - 1
    /\ LET a == kArgs
           n == NodeN(a.idx)
       IN  IF a.pi1[1] = 0 /\ a.pi2[1] = 0
           THEN /\ kRet' = RatNil
                /\ kPc' = "return"
                /\ kPruned' = kPruned \cup {a.idx}
                /\ UNCHANGED <<kArgs, kStack, kVisited>>
           ELSE IF n = 0
           THEN /\ kRet' = <<Child(NodeStart(a.idx)), 1>>
                /\ kPc' = "return"
                /\ kVisited' = kVisited \cup {a.idx}
                /\ UNCHANGED <<kArgs, kStack, kPruned>>
           ELSE LET s == IF NodeKind(a.idx) = CHANCE THEN <<>>
                         ELSE regret_matching(NodeRegrets(a.idx), n)
                    f == NewFrame(a, s, 0 - 1)
                IN  /\ kStack' = <<f>> \o kStack
                    /\ kArgs' = full_child_args(f, 0)
                    /\ kPc' = "call"
                    /\ kVisited' = kVisited \cup {a.idx}
                    /\ UNCHANGED <<kRet, kPruned>>
    /\ UNCHANGED <<solverVars, kImpl, kCount, kTag, kPlayer, kLog, kBeyond, kOOB, kStrategy>>
    /\ KernelFrame

\* a recursive call has returned v to the loop of its caller: the loop goes on
\* to the next child, or ends, accumulates at a player node and returns u
full_traversal_return(fn) ==
    /\ kImpl = fn
    /\ kPc = "return"
    /\ kStack # <<>>
    /\ LET f == Head(kStack)
           n == NodeN(f.idx)
           chance == NodeKind(f.idx) = CHANCE
           w == IF chance THEN KernelProba(f.idx, f.i) ELSE f.s[f.i + 1]
           u == RatPlus(f.u, RatMul(w, kRet))
           utils == Append(f.utils, kRet)
           g == [f EXCEPT !.i = @ + 1, !.u = u, !.utils = utils]
           dr == IF fn = "linear_cfr" THEN linear_cfr_regret_updates(f, u, utils)
                 ELSE cfr_plus_regret_updates(f, u, utils)
           ds == IF fn = "linear_cfr" THEN linear_cfr_strategy_updates(f)
                 ELSE cfr_plus_strategy_updates(f)
       IN  IF f.i + 1 < n
           THEN /\ kStack' = <<g>> \o Tail(kStack)
                /\ kArgs' = full_child_args(f, f.i + 1)
                /\ kPc' = "call"
                /\ UNCHANGED <<kRet, kLog, shards, probas>>
           ELSE /\ kStack' = Tail(kStack)
                /\ kRet' = u
                /\ kPc' = "return"
                /\ UNCHANGED kArgs
                /\ IF chance
                   THEN UNCHANGED <<kLog, shards, probas>>
                   ELSE /\ kLog' = Append(kLog, LogRecord(f, u, utils, dr, ds))
                        /\ IF fn = "linear_cfr"
                           THEN /\ probas' = probas_accumulate(f.idx, dr, ds)
                                /\ UNCHANGED shards
                           ELSE /\ shards' = shards_accumulate(f.idx, dr, ds)
                                /\ UNCHANGED probas
    /\ UNCHANGED <<SolverMaps, kImpl, kCount, kTag, kPlayer, kBudget, kVisited, kPruned,
                   kBeyond, kOOB, kStrategy>>
    /\ KernelFrame

linear_cfr_call == full_traversal_call("linear_cfr")
linear_cfr_return == full_traversal_return("linear_cfr")
cfr_plus_iteration_call == full_traversal_call("cfr_plus_iteration")
cfr_plus_iteration_return == full_traversal_return("cfr_plus_iteration")

\* A Shard of part_000 is aligned on 64 bytes: its array of MAX_NB_PLAYER_ACTIONS
\* doubles is followed by the lock and by padding, ShardSlots doubles in all.
\* Shard(Shard&&) copies the array only, so after the reallocation of shards in
\* init what follows the array holds whatever the new memory held.  An access
\* regrets_and_strategies[i] with i past the array either lands there or ends
\* the program, as the build decides.
ShardSlots == 8
Paddings ==
    {[j \in 1..(ShardSlots - Game_MAX_NB_PLAYER_ACTIONS(tgName)) |-> RatNil],
     [j \in 1..(ShardSlots - Game_MAX_NB_PLAYER_ACTIONS(tgName)) |-> <<j, 1>>]}

\* what lies past the arrays when the solver is first used
ShardMemories ==
    IF slKind = "MCCFR" /\ kBeyond = <<>>
    THEN {<<[e \in 1..Len(shards) |-> padding], outcome>> :
              padding \in Paddings, outcome \in {"inside the shard", "fault"}}
    ELSE {<<kBeyond, kOOB>>}

\* an iteration of a solve loop begins: the root call is about to run
KernelBegin(kind, fn, tag, player) ==
    /\ slKind = kind
    /\ slPc = "ready"
    /\ kPc \in {"none", "idle"}
    /\ kImpl \in {"none", fn}
    /\ kCount < MaxKernelIterations
    /\ kImpl' = fn
    /\ kCount' = kCount + 1
    /\ kTag' = tag
    /\ kPlayer' = player
    /\ kArgs' = [idx |-> 0, pi1 |-> RatOne, pi2 |-> RatOne, pc |-> RatOne]
    /\ kPc' = "call"
    /\ kBudget' = IterationBudget
    /\ kVisited' = {}
    /\ kPruned' = {}
    /\ \E memory \in ShardMemories : kBeyond' = memory[1] /\ kOOB' = memory[2]
    /\ UNCHANGED <<solverVars, kStack, kRet, kLog, kStrategy>>
    /\ KernelFrame

\* CFR::solve, the loop run in order by one thread: linear_cfr(0, 1, 1, 1, iter),
\* where iter is the number of iterations that have ended
CFR_solve_iteration == KernelBegin("CFR", "linear_cfr", kCount, NoPlayer)
\* CFRPlus::solve: cfr_plus_iteration(0, 1, 1, 1)
CFRPlus_solve_iteration == KernelBegin("CFRPlus", "cfr_plus_iteration", 0, NoPlayer)

\* the root call has returned: game_value += value; ++iter
Kernel_iteration_end ==
    /\ kPc = "return"
    /\ kStack = <<>>
    /\ kPc' = "idle"
    /\ UNCHANGED <<solverVars, kImpl, kArgs, kStack, kRet, kCount, kTag, kPlayer, kBudget,
                   kVisited, kPruned, kLog, kBeyond, kOOB, kStrategy>>
    /\ KernelFrame

(***************************************************************************)
(* The sampling traversals: external_sampling_mccfr and                    *)
(* outcome_sampling_mccfr of part_000, outcome_sampling of mccfr.h.  In    *)
(* the calls of part_000 pi1 is pi_updating and pi2 is pi_opponent; pc is  *)
(* sample_prob.  A draw r of the generator picks action i with the         *)
(* probability probs[i], so sample_action is any action of positive        *)
(* probability.                                                            *)
(***************************************************************************)
SamplingKernels == {"external_sampling_mccfr", "outcome_sampling_mccfr", "outcome_sampling"}

\* MCCFR(tree) of mccfr.h, the same text as CFRPlus(tree): shards(tree.nb_nodes());
\* node_idx_to_shard_idx.resize(nb_nodes); init(info_set_to_shard_idx, 0) is about to run
MCCFR_h_MCCFR ==
    /\ TreeBuilt
    /\ slKind = "none"
    /\ slKind' = "mccfr.h"
    /\ shards' = [k \in 1..nb_nodes |-> CFRPlus_Shard]
    /\ node_idx_to_data_idx' = Zeros(nb_nodes)
    /\ info_set_to_data_idx' = <<>>
    /\ slStack' = <<0>>
    /\ slPc' = "init"
    /\ UNCHANGED <<probas, shard_idx, probas_idx, tvNode, tvI, tvP>>
    /\ SolverFrame

sample_action(probs, n) == {i \in 0..(n - 1) : probs[i + 1][1] > 0}

\* the probabilities stored for a chance node, in order
KernelProbas(idx) == [i \in 1..NodeN(idx) |-> KernelProba(idx, i - 1)]

\* an external sampling that would recurse into every child at the nodes of
\* both players
ExploresAll_both_players(fn, idx) ==
    \/ fn = "external_sampling_mccfr" /\ NodeKind(idx) # CHANCE
    \/ fn = "outcome_sampling" /\ NodeKind(idx) = kPlayer

\* the traversal recurses into every child of the node (else into a sampled one):
\* if (player == updating_player) of external_sampling_mccfr and
\* if (player == traversing_player) of outcome_sampling
ExploresAll(fn, idx) ==
    /\ NodeKind(idx) = kPlayer
    /\ fn \in {"external_sampling_mccfr", "outcome_sampling"}

\* the arguments of the recursive call for child i of the node of frame f
sampling_child_args(fn, f, i) ==
    LET player == NodeKind(f.idx)
        w == IF player = CHANCE THEN KernelProba(f.idx, i) ELSE f.s[i + 1]
        first == IF fn = "outcome_sampling" THEN player = PLAYER1 ELSE player = kPlayer
        second == IF fn = "outcome_sampling" THEN player = PLAYER2
                  ELSE player # CHANCE /\ player # kPlayer
        sampled == CASE fn = "external_sampling_mccfr" -> FALSE
                     [] fn = "outcome_sampling_mccfr" -> TRUE
                     [] fn = "outcome_sampling" -> player # kPlayer
    IN  [idx |-> KernelChild(f.idx, i),
         pi1 |-> IF first THEN RatMul(f.pi1, w) ELSE f.pi1,
         pi2 |-> IF second THEN RatMul(f.pi2, w) ELSE f.pi2,
         pc |-> IF sampled THEN RatMul(f.pc, w) ELSE f.pc]

\* the value of a terminal node for the updating player
sampling_utility(fn, a) ==
    LET payoff == <<Child(NodeStart(a.idx)), 1>>
        utility == IF kPlayer = PLAYER1 THEN payoff ELSE RatNeg(payoff)
    IN  IF fn = "outcome_sampling_mccfr" THEN RatDiv(utility, a.pc) ELSE utility

\* a sampling traversal from its entry to its recursive call (the first one
\* where it explores every action), or to its return at a terminal node
sampling_call(fn) ==
    /\ kImpl = fn
    /\ kPc = "call"
    /\ kBudget > 0
    /\ kBudget' = kBudget - 1
    /\ kVisited' = kVisited \cup {kArgs.idx}
    /\ LET a == kArgs
           n == NodeN(a.idx)
       IN  IF n = 0
           THEN /\ kRet' = sampling_utility(fn, a)
                /\ kPc' = "return"
                /\ UNCHANGED <<kArgs, kStack>>
           ELSE LET s == IF NodeKind(a.idx) = CHANCE THEN <<>>
                         ELSE regret_matching(NodeRegrets(a.idx), n)
                    probs == IF NodeKind(a.idx) = CHANCE THEN KernelProbas(a.idx) ELSE s
                IN  \E sampled_action \in IF ExploresAll(fn, a.idx) THEN {0 - 1}
                                          ELSE sample_action(probs, n) :
                        LET f == NewFrame(a, s, sampled_action)
                        IN  /\ kStack' = <<f>> \o kStack
                            /\ kArgs' = sampling_child_args(fn, f,
                                   IF sampled_action < 0 THEN 0 ELSE sampled_action)
                            /\ kPc' = "call"
                            /\ UNCHANGED kRet
    /\ UNCHANGED <<solverVars, kImpl, kCount, kTag, kPlayer, kPruned, kLog, kBeyond, kOOB, kStrategy>>
    /\ KernelFrame

\* the deltas an accumulation of a sampling traversal submits
sampling_regret_updates(fn, f, u, utils) ==
    [i \in 1..NodeN(f.idx) |->
        CASE fn = "external_sampling_mccfr" -> RatMul(f.pi2, RatMinus(utils[i], u))
          [] fn = "outcome_sampling_mccfr" ->
                 IF i = f.sampled + 1 THEN RatMul(f.pi2, u) ELSE RatNil
          [] fn = "outcome_sampling" ->
                 RatMul(RatDiv(IF NodeKind(f.idx) = PLAYER1 THEN f.pi2 ELSE f.pi1, f.pc),
                        RatMinus(utils[i], u))]
sampling_strategy_updates(fn, f) ==
    [i \in 1..NodeN(f.idx) |->
        CASE fn = "external_sampling_mccfr" -> RatMul(f.pi1, f.s[i])
          [] fn = "outcome_sampling_mccfr" -> IF i = f.sampled + 1 THEN f.pi1 ELSE RatNil
          [] fn = "outcome_sampling" ->
                 RatDiv(RatMul(IF NodeKind(f.idx) = PLAYER1 THEN f.pi1 ELSE f.pi2, f.s[i]),
                        f.pc)]

\* Shard::add_regret_and_strategies of part_000 on the memory of a shard:
\* regrets_and_strategies[i] += values[i] for i < 2 * n
ShardMemory(e) == shards[e].regrets_and_strategies \o kBeyond[e]
add_regret_and_strategies(e, values, n) ==
    [k \in 1..ShardSlots |->
        IF k <= 2 * n THEN RatPlus(ShardMemory(e)[k], values[k]) ELSE ShardMemory(e)[k]]

\* a recursive call has returned to a sampling traversal: it goes on to the
\* next action where it explores them all, or else accumulates where the code
\* does and returns
sampling_return(fn) ==
    /\ kImpl = fn
    /\ kPc = "return"
    /\ kStack # <<>>
    /\ LET f == Head(kStack)
           n == NodeN(f.idx)
           e == node_idx_to_data_idx[f.idx + 1] + 1
           capacity == Game_MAX_NB_PLAYER_ACTIONS(tgName)
           all == f.sampled < 0
           u == IF all THEN RatPlus(f.u, RatMul(f.s[f.i + 1], kRet)) ELSE kRet
           utils == Append(f.utils, kRet)
           g == [f EXCEPT !.i = @ + 1, !.u = u, !.utils = utils]
           accumulates == NodeKind(f.idx) = kPlayer
           dr == sampling_regret_updates(fn, f, u, utils)
           ds == sampling_strategy_updates(fn, f)
           memory == add_regret_and_strategies(e, dr \o ds, n)
       IN  IF all /\ f.i + 1 < n
           THEN /\ kStack' = <<g>> \o Tail(kStack)
                /\ kArgs' = sampling_child_args(fn, f, f.i + 1)
                /\ kPc' = "call"
                /\ UNCHANGED <<kRet, kLog, shards, kBeyond>>
           ELSE IF ~accumulates
           THEN /\ kStack' = Tail(kStack)
                /\ kRet' = u
                /\ kPc' = "return"
                /\ UNCHANGED <<kArgs, kLog, shards, kBeyond>>
           ELSE IF fn = "outcome_sampling"
           THEN /\ kStack' = Tail(kStack)
                /\ kRet' = u
                /\ kPc' = "return"
                /\ kLog' = Append(kLog, LogRecord(f, u, utils, dr, ds))
                /\ shards' = shards_accumulate(f.idx, dr, ds)
                /\ UNCHANGED <<kArgs, kBeyond>>
           ELSE IF 2 * n > capacity /\ kOOB = "fault"
           THEN /\ kPc' = "fault"
                /\ UNCHANGED <<kArgs, kStack, kRet, kLog, shards, kBeyond>>
           ELSE /\ kStack' = Tail(kStack)
                /\ kRet' = u
                /\ kPc' = "return"
                /\ kLog' = Append(kLog, LogRecord(f, u, utils, dr, ds))
                /\ shards' = [shards EXCEPT
                                 ![e].regrets_and_strategies = SubSeq(memory, 1, capacity)]
                /\ kBeyond' = [kBeyond EXCEPT ![e] = SubSeq(memory, capacity + 1, ShardSlots)]
                /\ UNCHANGED kArgs
    /\ UNCHANGED <<SolverMaps, probas, kImpl, kCount, kTag, kPlayer, kBudget, kVisited, kPruned,
                   kOOB, kStrategy>>
    /\ KernelFrame

external_sampling_mccfr_call == sampling_call("external_sampling_mccfr")
external_sampling_mccfr_return == sampling_return("external_sampling_mccfr")
outcome_sampling_mccfr_call == sampling_call("outcome_sampling_mccfr")
outcome_sampling_mccfr_return == sampling_return("outcome_sampling_mccfr")
outcome_sampling_call == sampling_call("outcome_sampling")
outcome_sampling_return == sampling_return("outcome_sampling")

\* MCCFR::solve_external_sampling of part_000, the loop run in order by one
\* thread: current_iter = iter.fetch_add(1) is the number of the iteration
solve_external_sampling_iteration ==
    KernelBegin("MCCFR", "external_sampling_mccfr", kCount + 1, UpdatingPlayer(kCount + 1))
\* MCCFR::solve_outcome_sampling of part_000
solve_outcome_sampling_iteration ==
    KernelBegin("MCCFR", "outcome_sampling_mccfr", kCount + 1, UpdatingPlayer(kCount + 1))
\* MCCFR::solve of mccfr.h: traversing_player = (i % 2 == 0) ? PLAYER1 : PLAYER2, i from 0
MCCFR_solve_iteration ==
    KernelBegin("mccfr.h", "outcome_sampling", kCount, UpdatingPlayer(kCount))

(***************************************************************************)
(* get_strategy.                                                           *)
(***************************************************************************)
\* the cumulative strategy fill_strategy reads for action i (from 0) of a node:
\* probas_regrets_and_strategies[offset + n + i] (cfr.h),
\* shard.regrets_and_strategies[n + i] (part_000), shard.strategies[i] (mccfr.h,
\* cfr_plus.h)
fill_strategy_read(idx, i, beyond) ==
    LET e == node_idx_to_data_idx[idx + 1] + 1
        n == NodeN(idx)
    IN  CASE slKind = "CFR" -> probas[node_idx_to_data_idx[idx + 1] + n + i + 1]
          [] slKind = "MCCFR" -> (shards[e].regrets_and_strategies \o beyond[e])[n + i + 1]
          [] OTHER -> shards[e].strategies[i + 1]

\* sum > 0 ? s[i] / sum : 1.0 / n, for every i
fill_strategy_normalise(s, n) ==
    [i \in 1..n |-> IF RatSeqSum(s)[1] > 0 THEN RatDiv(s[i], RatSeqSum(s)) ELSE <<1, n>>]

\* what fill_strategy does at a player node before it recurses
fill_strategy_record(idx, strategy, beyond) ==
    LET n == NodeN(idx)
        info_set == InfoSetOf(idx)
        s == [i \in 1..n |-> fill_strategy_read(idx, i - 1, beyond)]
    IN  IF MapHas(strategy.info_set_to_idx, info_set) THEN strategy
        ELSE [info_set_to_idx |->
                  Append(strategy.info_set_to_idx, <<info_set, Len(strategy.actions)>>),
              info_set_to_nb_actions |->
                  Append(strategy.info_set_to_nb_actions, <<info_set, n>>),
              actions |-> strategy.actions \o [i \in 1..n |-> Label(NodeStart(idx) + i - 1)],
              strategies |-> strategy.strategies \o fill_strategy_normalise(s, n)]

\* the cumulative strategy of the node lies past the array of its shard
ReadsPastArray(idx) ==
    slKind = "MCCFR" /\ 2 * NodeN(idx) > Game_MAX_NB_PLAYER_ACTIONS(tgName)

\* get_strategy: Strategy<Game> strategy; fill_strategy(0, strategy) is about to run
get_strategy ==
    /\ slPc = "ready"
    /\ kPc \in {"none", "idle"}
    /\ kPc' = "fill_strategy"
    /\ kStack' = <<0>>
    /\ \E memory \in ShardMemories : kBeyond' = memory[1] /\ kOOB' = memory[2]
    /\ UNCHANGED <<solverVars, kImpl, kArgs, kRet, kCount, kTag, kPlayer, kBudget, kVisited,
                   kPruned, kLog, kStrategy>>
    /\ KernelFrame

\* one call of fill_strategy, up to its recursive calls (kStack holds the nodes
\* the calls still to come are for)
fill_strategy ==
    /\ kPc = "fill_strategy"
    /\ kStack # <<>>
    /\ LET idx == Head(kStack)
       IN  IF NodeN(idx) = 0
           THEN /\ kStack' = Tail(kStack)
                /\ UNCHANGED <<kPc, kStrategy>>
           ELSE IF NodeKind(idx) = CHANCE
           THEN /\ kStack' = ChildrenOf(idx) \o Tail(kStack)
                /\ UNCHANGED <<kPc, kStrategy>>
           ELSE IF /\ ~MapHas(kStrategy.info_set_to_idx, InfoSetOf(idx))
                   /\ ReadsPastArray(idx) /\ kOOB = "fault"
           THEN /\ kPc' = "fault"
                /\ UNCHANGED <<kStack, kStrategy>>
           ELSE /\ kStrategy' = fill_strategy_record(idx, kStrategy, kBeyond)
                /\ kStack' = ChildrenOf(idx) \o Tail(kStack)
                /\ UNCHANGED kPc
    /\ UNCHANGED <<solverVars, kImpl, kArgs, kRet, kCount, kTag, kPlayer, kBudget, kVisited,
                   kPruned, kLog, kBeyond, kOOB>>
    /\ KernelFrame

\* fill_strategy(0, strategy) has returned: return strategy
get_strategy_return ==
    /\ kPc = "fill_strategy"
    /\ kStack = <<>>
    /\ kPc' = "strategy"
    /\ UNCHANGED <<solverVars, kImpl, kArgs, kStack, kRet, kCount, kTag, kPlayer, kBudget,
                   kVisited, kPruned, kLog, kBeyond, kOOB, kStrategy>>
    /\ KernelFrame

\* the tree of SimplePoker is about to be built
KernelInit ==
    /\ TreeInit
    /\ tgName = "SimplePoker"
    /\ SolverIdle
    /\ KernelIdle

KernelNext ==
    \/ build_tree_enter
    \/ build_tree_play
    \/ build_tree_undo
    \/ build_tree_exit
    \/ GameTree_built
    \/ CFRPlus_CFRPlus
    \/ CFRPlus_init
    \/ CFR_CFR
    \/ CFR_init_idx_to_offset
    \/ CFR_resize
    \/ CFR_fill_probas
    \/ Solver_constructed
    \/ CFR_solve_iteration
    \/ linear_cfr_call
    \/ linear_cfr_return
    \/ CFRPlus_solve_iteration
    \/ cfr_plus_iteration_call
    \/ cfr_plus_iteration_return
    \/ MCCFR_MCCFR
    \/ MCCFR_init
    \/ MCCFR_h_MCCFR
    \/ solve_external_sampling_iteration
    \/ external_sampling_mccfr_call
    \/ external_sampling_mccfr_return
    \/ solve_outcome_sampling_iteration
    \/ outcome_sampling_mccfr_call
    \/ outcome_sampling_mccfr_return
    \/ MCCFR_solve_iteration
    \/ outcome_sampling_call
    \/ outcome_sampling_return
    \/ Kernel_iteration_end

StrategyNext ==
    \/ build_tree_enter
    \/ build_tree_play
    \/ build_tree_undo
    \/ build_tree_exit
    \/ GameTree_built
    \/ CFRPlus_CFRPlus
    \/ CFRPlus_init
    \/ CFR_CFR
    \/ CFR_init_idx_to_offset
    \/ CFR_resize
    \/ CFR_fill_probas
    \/ MCCFR_MCCFR
    \/ MCCFR_init
    \/ MCCFR_h_MCCFR
    \/ Solver_constructed
    \/ CFR_solve_iteration
    \/ linear_cfr_call
    \/ linear_cfr_return
    \/ CFRPlus_solve_iteration
    \/ cfr_plus_iteration_call
    \/ cfr_plus_iteration_return
    \/ solve_external_sampling_iteration
    \/ external_sampling_mccfr_call
    \/ external_sampling_mccfr_return
    \/ Kernel_iteration_end
    \/ get_strategy
    \/ fill_strategy
    \/ get_strategy_return

(***************************************************************************)
(* best_response and evaluate, over the tree of SimplePoker.               *)
(* fill_best_response is run with an explicit stack, as the traversals     *)
(* are; evaluate, which keeps no state between calls, is an operator.      *)
(***************************************************************************)
RatLess(p, q) == p[1] * q[2] < q[1] * p[2]
RECURSIVE SortedSeq(_)
SortedSeq(S) ==
    IF S = {} THEN <<>>
    ELSE <<CHOOSE x \in S : \A y \in S : x <= y>>
             \o SortedSeq(S \ {CHOOSE x \in S : \A y \in S : x <= y})
RECURSIVE Flatten(_)
Flatten(seqs) == IF Len(seqs) = 0 THEN <<>> ELSE seqs[1] \o Flatten(Tail(seqs))

\* Strategy::get_strategy(info_set)[i] and Strategy::get_actions(info_set)[i]
Strategy_get_strategy(st, info_set, i) ==
    st.strategies[MapGet(st.info_set_to_idx, info_set) + i + 1]
Strategy_get_actions(st, info_set, i) ==
    st.actions[MapGet(st.info_set_to_idx, info_set) + i + 1]
\* std::find(actions, actions + n, a) - actions
find_action(st, info_set, n, a) ==
    IF \E k \in 0..(n - 1) : Strategy_get_actions(st, info_set, k) = a
    THEN CHOOSE k \in 0..(n - 1) :
             /\ Strategy_get_actions(st, info_set, k) = a
             /\ \A j \in 0..(k - 1) : Strategy_get_actions(st, info_set, j) # a
    ELSE n

\* SimplePoker::info_sets_and_actions(state, player)
SimplePoker_info_sets_and_actions(state, player) ==
    LET v == state[2]
        nb_plies == v \div 32768
    IN  IF player = PLAYER1
        THEN (IF nb_plies >= 3
              THEN <<<< <<0, 2 * 32768 + (v % 8)>>, (v \div 64) % 8 >>>> ELSE <<>>)
             \o (IF nb_plies >= 5
                 THEN <<<< <<0, 4 * 32768 + (v % 8) + 64 * ((v \div 64) % 64)>>,
                           (v \div 4096) % 8 >>>>
                 ELSE <<>>)
        ELSE IF nb_plies >= 4
             THEN <<<< <<0, 3 * 32768 + 8 * ((v \div 8) % 64)>>, (v \div 512) % 8 >>>>
             ELSE <<>>

\* SimplePoker::chance_reach_proba(state)
SimplePoker_chance_probas == <<RatOne, RatOne, RatOne, RatOne, <<1, 2>>, <<1, 4>>, <<1, 4>>>>
SimplePoker_chance_reach_proba(state) ==
    RatMul(SimplePoker_chance_probas[(state[2] % 8) + 1],
           SimplePoker_chance_probas[((state[2] \div 8) % 8) + 1])

\* GameTree::get_states(info_set) and GameTree::get_state_idx(state)
get_states(info_set) ==
    LET members == SortedSeq({idx \in PlayerNodes : InfoSetOf(idx) = info_set})
    IN  [k \in 1..Len(members) |-> states[members[k] + 1]]
get_state_idx(state) ==
    CHOOSE idx \in Nodes :
        /\ states[idx + 1] = state
        /\ \A j \in Nodes : states[j + 1] = state => j <= idx

\* the strategies the best responses are computed against: every info set of
\* PLAYER1 with the same first card gets one distribution, and so does every
\* info set of PLAYER2 that faces the same action
Distributions == {<<RatOne, RatNil>>, <<RatNil, RatOne>>, <<<<1, 2>>, <<1, 2>>>>}
FirstNodes ==
    {idx \in PlayerNodes : \A j \in PlayerNodes : InfoSetOf(j) = InfoSetOf(idx) => idx <= j}
InfoSetClass(idx) ==
    IF NodeKind(idx) = PLAYER1 THEN InfoSetOf(idx)[2] % 8
    ELSE 8 + ((InfoSetOf(idx)[2] \div 64) % 8)
Classes == {InfoSetClass(idx) : idx \in PlayerNodes}
\* the Strategy that fill_strategy would lay out for the distributions c
StrategyOf(c) ==
    LET firsts == SortedSeq(FirstNodes)
    IN  [info_set_to_idx |->
             [k \in 1..Len(firsts) |->
                 <<InfoSetOf(firsts[k]), SeqSum([j \in 1..(k - 1) |-> NodeN(firsts[j])])>>],
         info_set_to_nb_actions |->
             [k \in 1..Len(firsts) |-> <<InfoSetOf(firsts[k]), NodeN(firsts[k])>>],
         actions |->
             Flatten([k \in 1..Len(firsts) |->
                        [i \in 1..NodeN(firsts[k]) |-> Label(NodeStart(firsts[k]) + i - 1)]]),
         strategies |-> Flatten([k \in 1..Len(firsts) |-> c[InfoSetClass(firsts[k])]])]
EmptyStrategy ==
    [info_set_to_idx |-> <<>>, info_set_to_nb_actions |-> <<>>, actions |-> <<>>,
     strategies |-> <<>>]

BRIdle ==
    /\ brS = EmptyStrategy
    /\ brPlayer = NoPlayer
    /\ brPc = "none"
    /\ brIdx = 0
    /\ brStack = <<>>
    /\ brRet = RatNil
    /\ brValues = <<>>
    /\ brRes = EmptyStrategy
    /\ brDone = <<EmptyStrategy, EmptyStrategy>>
    /\ brEval = <<>>

\* the weight of child i (from 0) of a chance node: tree.children[start + 2*i + 1] / sum
chance_weight(idx, i) ==
    RatNorm(<<ChanceWeights(idx)[i + 1], SeqSum(ChanceWeights(idx))>>)

RECURSIVE evaluate(_, _, _)
\* evaluate(idx, tree, s1, s2)
evaluate(idx, s1, s2) ==
    IF NodeN(idx) = 0 THEN <<Child(NodeStart(idx)), 1>>
    ELSE IF NodeKind(idx) = CHANCE
    THEN RatSeqSum([i \in 1..NodeN(idx) |->
             RatMul(chance_weight(idx, i - 1), evaluate(KernelChild(idx, i - 1), s1, s2))])
    ELSE RatSeqSum([i \in 1..NodeN(idx) |->
             RatMul(Strategy_get_strategy(IF NodeKind(idx) = PLAYER1 THEN s1 ELSE s2,
                                          InfoSetOf(idx), i - 1),
                    evaluate(KernelChild(idx, i - 1), s1, s2))])

\* the reach probability p that fill_best_response computes for a state of an
\* info set with n actions: the chance probability times the probabilities the
\* opponent's strategy gives the opponent's actions on the way
state_reach(state, n) ==
    LET pairs == SimplePoker_info_sets_and_actions(state,
                     IF brPlayer = PLAYER1 THEN PLAYER2 ELSE PLAYER1)
        factors == [k \in 1..Len(pairs) |->
                       Strategy_get_strategy(brS, pairs[k][1],
                           find_action(brS, pairs[k][1], n, pairs[k][2]))]
    IN  IF Len(pairs) = 0 THEN SimplePoker_chance_reach_proba(state)
        ELSE IF Len(pairs) = 1
        THEN RatMul(SimplePoker_chance_reach_proba(state), factors[1])
        ELSE RatMul(RatMul(SimplePoker_chance_reach_proba(state), factors[1]), factors[2])

\* a loop that would keep the last of the actions of greatest value
best_action_last(utils, n) ==
    CHOOSE i \in 0..(n - 1) :
        /\ \A j \in 0..(n - 1) : ~RatLess(utils[i + 1], utils[j + 1])
        /\ \A j \in (i + 1)..(n - 1) : RatLess(utils[j + 1], utils[i + 1])

\* the loop over the actions with if (utils[i] > best_value): the first of the
\* actions of greatest value
best_action(utils, n) ==
    CHOOSE i \in 0..(n - 1) :
        /\ \A j \in 0..(n - 1) : ~RatLess(utils[i + 1], utils[j + 1])
        /\ \A j \in 0..(i - 1) : RatLess(utils[j + 1], utils[i + 1])

\* a terminal value that would not change sign with the player
terminal_value_unsigned(idx) == <<Child(NodeStart(idx)), 1>>

\* static_cast<T>(tree.children[start]) * (player == PLAYER1 ? 1 : -1)
terminal_value(idx) ==
    IF brPlayer = PLAYER1 THEN <<Child(NodeStart(idx)), 1>>
    ELSE <<0 - Child(NodeStart(idx)), 1>>

BRFrameOf(idx, sts, p, n) ==
    [idx |-> idx, i |-> 0, k |-> 0, sts |-> sts, p |-> p, u |-> RatNil,
     utils |-> RatZeros(n), proba_sum |-> p]

\* best_response(tree, s, player): res and values are empty,
\* fill_best_response(0, ...) is about to run.  The first call fixes s.
best_response_call ==
    /\ TreeBuilt
    /\ brPc \in {"none", "idle"}
    /\ \E player \in {PLAYER1, PLAYER2} :
          /\ brDone[player + 1] = EmptyStrategy
          /\ player = PLAYER2 => brDone[PLAYER1 + 1] # EmptyStrategy
          /\ brPlayer' = player
    /\ IF brPc = "none"
       THEN \E c \in [Classes -> Distributions] : brS' = StrategyOf(c)
       ELSE UNCHANGED brS
    /\ brPc' = "call"
    /\ brIdx' = 0
    /\ brValues' = <<>>
    /\ brRes' = EmptyStrategy
    /\ UNCHANGED <<brStack, brRet, brDone, brEval>>
    /\ BRFrame

\* fill_best_response from its entry to its first recursive call, or to its
\* return at a terminal node or at an info set whose value is known
fill_best_response_call ==
    /\ brPc = "call"
    /\ LET idx == brIdx
           n == NodeN(idx)
           info_set == InfoSetOf(idx)
           sts == get_states(info_set)
       IN  IF n = 0
           THEN /\ brRet' = terminal_value(idx)
                /\ brPc' = "return"
                /\ UNCHANGED <<brIdx, brStack>>
           ELSE IF NodeKind(idx) # brPlayer
           THEN /\ brStack' = <<BRFrameOf(idx, <<>>, RatNil, n)>> \o brStack
                /\ brIdx' = KernelChild(idx, 0)
                /\ UNCHANGED <<brRet, brPc>>
           ELSE IF MapHas(brValues, info_set)
           THEN /\ brRet' = MapGet(brValues, info_set)
                /\ brPc' = "return"
                /\ UNCHANGED <<brIdx, brStack>>
           ELSE /\ brStack' = <<BRFrameOf(idx, sts, state_reach(sts[1], n), n)>> \o brStack
                /\ brIdx' = KernelChild(get_state_idx(sts[1]), 0)
                /\ UNCHANGED <<brRet, brPc>>
    /\ UNCHANGED <<brS, brPlayer, brValues, brRes, brDone, brEval>>
    /\ BRFrame

\* a recursive call has returned v: the loops go on to the next child or the
\* next state, or end; at the end of an info set of the player the best action
\* is recorded in best_response and the value in values
fill_best_response_return ==
    /\ brPc = "return"
    /\ brStack # <<>>
    /\ LET f == Head(brStack)
           idx == f.idx
           n == NodeN(idx)
           info_set == InfoSetOf(idx)
           own == NodeKind(idx) = brPlayer
           w == CASE NodeKind(idx) = CHANCE -> chance_weight(idx, f.i)
                  [] own -> f.p
                  [] OTHER -> Strategy_get_strategy(brS, info_set, f.i)
           u == RatPlus(f.u, RatMul(w, brRet))
           utils == [f.utils EXCEPT ![f.i + 1] = RatPlus(@, RatMul(f.p, brRet))]
           node == IF own THEN get_state_idx(f.sts[f.k + 1]) ELSE idx
           p == state_reach(f.sts[f.k + 2], n)
           best == best_action(utils, n)
           offset == Len(brRes.actions)
           value == IF f.proba_sum[1] = 0 THEN RatNil
                    ELSE RatDiv(utils[best + 1], f.proba_sum)
       IN  IF f.i + 1 < n
           THEN /\ brStack' = <<[f EXCEPT !.i = @ + 1, !.u = u, !.utils = utils]>>
                                  \o Tail(brStack)
                /\ brIdx' = KernelChild(node, f.i + 1)
                /\ brPc' = "call"
                /\ UNCHANGED <<brRet, brValues, brRes>>
           ELSE IF own /\ f.k + 1 < Len(f.sts)
           THEN /\ brStack' = <<[f EXCEPT !.i = 0, !.k = @ + 1, !.utils = utils, !.p = p,
                                          !.proba_sum = RatPlus(@, p)]>> \o Tail(brStack)
                /\ brIdx' = KernelChild(get_state_idx(f.sts[f.k + 2]), 0)
                /\ brPc' = "call"
                /\ UNCHANGED <<brRet, brValues, brRes>>
           ELSE IF own
           THEN /\ brStack' = Tail(brStack)
                /\ brRes' =
                      [info_set_to_idx |-> Append(brRes.info_set_to_idx, <<info_set, offset>>),
                       info_set_to_nb_actions |->
                           Append(brRes.info_set_to_nb_actions, <<info_set, n>>),
                       actions |-> brRes.actions
                                      \o [i \in 1..n |-> Label(NodeStart(idx) + i - 1)],
                       strategies |-> brRes.strategies
                                         \o [i \in 1..n |-> IF i = best + 1 THEN RatOne
                                                            ELSE RatNil]]
                /\ brValues' = Append(brValues, <<info_set, value>>)
                /\ brRet' = value
                /\ UNCHANGED <<brIdx, brPc>>
           ELSE /\ brStack' = Tail(brStack)
                /\ brRet' = u
                /\ UNCHANGED <<brIdx, brPc, brValues, brRes>>
    /\ UNCHANGED <<brS, brPlayer, brDone, brEval>>
    /\ BRFrame

\* fill_best_response(0, ...) has returned: return res
best_response_return ==
    /\ brPc = "return"
    /\ brStack = <<>>
    /\ brDone' = [brDone EXCEPT ![brPlayer + 1] = brRes]
    /\ brPc' = "idle"
    /\ UNCHANGED <<brS, brPlayer, brIdx, brStack, brRet, brValues, brRes, brEval>>
    /\ BRFrame

\* with br1 = best_response(tree, s, PLAYER1) and br2 = best_response(tree, s,
\* PLAYER2): evaluate(0, tree, br1, s), evaluate(0, tree, s, s), evaluate(0, tree, s, br2)
evaluate_profiles ==
    /\ brPc = "idle"
    /\ brDone[PLAYER1 + 1] # EmptyStrategy
    /\ brDone[PLAYER2 + 1] # EmptyStrategy
    /\ brEval' = <<evaluate(0, brDone[PLAYER1 + 1], brS), evaluate(0, brS, brS),
                   evaluate(0, brS, brDone[PLAYER2 + 1])>>
    /\ brPc' = "evaluated"
    /\ UNCHANGED <<brS, brPlayer, brIdx, brStack, brRet, brValues, brRes, brDone>>
    /\ BRFrame

BRInit ==
    /\ TreeInit
    /\ tgName = "SimplePoker"
    /\ BRIdle

BRNext ==
    \/ build_tree_enter
    \/ build_tree_play
    \/ build_tree_undo
    \/ build_tree_exit
    \/ GameTree_built
    \/ best_response_call
    \/ fill_best_response_call
    \/ fill_best_response_return
    \/ best_response_return
    \/ evaluate_profiles

(***************************************************************************)
(* A PostflopPoker game that is played and traversed (part_010; the        *)
(* traversals of part_008 and build_tree call play(a), recurse and call    *)
(* undo(a)).  ppTrail holds the plays that have not been undone.           *)
(***************************************************************************)
MaxPlays == 8            \* plays in one run: three streets of two checks and two deals
MaxTraversePlays == 5    \* plays in one traversal
MaxStreetActions == 4    \* betting actions in one street
MaxDealChoices == 2      \* cards a chance node is traversed with
StartingPots == {20, 21}
StartingStack == 100

PPIdle ==
    /\ ppGame = <<>>
    /\ ppTrail = <<>>
    /\ ppPlays = 0
    /\ ppShowdown = PLAYER1

\* the games of test_postflop.cpp (flop 2c 2d 2h, Ac Ah against Kc Kh) and a
\* game with ranges of two hands and one hand
PostflopGames ==
    {PostflopPoker_hands(<<0, 13, 26>>, <<12, 25>>, <<11, 24>>, pot, StartingStack) :
         pot \in StartingPots}
    \cup {PostflopPoker_ranges(<<0, 13, 26>>,
                               << <<<<12, 25>>, 500000>>, <<<<11, 24>>, 500000>> >>,
                               << <<<<11, 24>>, 1000000>> >>, 20, StartingStack)}

PPInit ==
    /\ ppGame \in PostflopGames
    /\ ppTrail = <<>>
    /\ ppPlays = 0
    /\ ppShowdown = PLAYER1

\* the actions of actions() the model plays: all betting actions, and the
\* first cards of a deal
Offered(g) ==
    LET list == PostflopPoker_actions(g)
    IN  IF PostflopPoker_is_chance_player(g)
        THEN {list[k] : k \in 1..(IF Len(list) < MaxDealChoices THEN Len(list)
                                  ELSE MaxDealChoices)}
        ELSE {list[k] : k \in 1..Len(list)}

\* game.play(a) for an action a of game.actions(), the game not being over
game_play ==
    /\ ppGame # <<>>
    /\ ~PostflopPoker_game_over(ppGame)
    /\ ppPlays < MaxPlays
    /\ ppGame.num_actions < MaxStreetActions
    /\ \E a \in Offered(ppGame) :
          LET g == PostflopPoker_play(ppGame, a)
          IN  /\ ppGame' = g
              /\ ppTrail' = <<[state |-> PostflopPoker_get_state(ppGame), a |-> a,
                               street |-> ppGame.street, to_call |-> ppGame.to_call,
                               num_actions |-> ppGame.num_actions]>> \o ppTrail
              /\ ppShowdown' \in IF PostflopPoker_game_over(g) THEN ShowdownResults
                                 ELSE {ppShowdown}
    /\ ppPlays' = ppPlays + 1
    /\ PPFrame

\* game.undo(a) for the last play that is not undone
game_undo ==
    /\ ppTrail # <<>>
    /\ ppGame' = PostflopPoker_undo(ppGame, Head(ppTrail).a)
    /\ ppTrail' = Tail(ppTrail)
    /\ UNCHANGED <<ppPlays, ppShowdown>>
    /\ PPFrame

\* game.play(action) of a traversal (cfr_traverse, cfr_chance_node, build_tree)
traverse_play ==
    /\ ppPlays < MaxTraversePlays
    /\ game_play

PlayNext == game_play
TraverseNext == traverse_play \/ game_undo

(***************************************************************************)
(* DCFRPostflopSolver::solve (part_008).  Each iteration traverses the     *)
(* game once for each training player, which adds that iteration's         *)
(* strategies to avg_strategy, and then decides whether avg_strategy is    *)
(* cleared.  dcAvg is the set of iterations whose strategies avg_strategy  *)
(* holds, dcCleared the iterations at whose end it was cleared.            *)
(***************************************************************************)
MaxDcfrIterations == 70

DCIdle ==
    /\ dcN = 0
    /\ dcIter = 0
    /\ dcPlayer = PLAYER1
    /\ dcPc = "none"
    /\ dcAvg = {}
    /\ dcCleared = {}

\* solve(game, num_iterations): iter = 1, player = PLAYER1
DCInit ==
    /\ dcN \in 1..MaxDcfrIterations
    /\ dcIter = 1
    /\ dcPlayer = PLAYER1
    /\ dcPc = "traverse"
    /\ dcAvg = {}
    /\ dcCleared = {}

\* 0xAAAAAAAA, the bits at the odd positions of 32
OddBits == <<170, 11184810>>

\* (n > 0) && (n & (n - 1)) == 0 && (n & 0xAAAAAAAA) == 0
is_power_of_4(n) ==
    /\ n > 0
    /\ BitAnd(n, n - 1) = 0
    /\ WordAnd(<<n \div Half, n % Half>>, OddBits) = WordZero

\* game.reset(); cfr_traverse(game, player, iter, 1.0, 1.0), which calls
\* update_average_strategy at the info sets of the training player
dcfr_traverse ==
    /\ dcPc = "traverse"
    /\ dcAvg' = dcAvg \cup {dcIter}
    /\ dcPlayer' = IF dcPlayer = PLAYER1 THEN PLAYER2 ELSE PLAYER1
    /\ dcPc' = IF dcPlayer = PLAYER1 THEN "traverse" ELSE "strategy_reset"
    /\ UNCHANGED <<dcN, dcIter, dcCleared>>
    /\ DCFrame

\* if (is_power_of_4(iter)) { avg_strategy.clear(); strategy_iteration_count.clear(); }
\* and iter++
dcfr_strategy_reset ==
    /\ dcPc = "strategy_reset"
    /\ IF is_power_of_4(dcIter)
       THEN dcAvg' = {} /\ dcCleared' = dcCleared \cup {dcIter}
       ELSE UNCHANGED <<dcAvg, dcCleared>>
    /\ dcIter' = dcIter + 1
    /\ dcPc' = IF dcIter < dcN THEN "traverse" ELSE "done"
    /\ UNCHANGED <<dcN, dcPlayer>>
    /\ DCFrame

DCNext == dcfr_traverse \/ dcfr_strategy_reset

(***************************************************************************)
(* Parallel_Vanilla_CFR (part_001).  solve starts the worker threads; each *)
(* calls cfr, which at a player node makes sure under map_mutex that the    *)
(* node and its mutex exist, looks both up, computes the current strategy  *)
(* under the node's mutex, recurses, and updates the node under its mutex. *)
(* pvStack[t] holds the info sets of the calls of cfr thread t is in, the   *)
(* innermost first.                                                        *)
(***************************************************************************)
InfoSetKeys == {1, 2}    \* the info sets the sampled deals lead to
MaxPvDepth == 2          \* player nodes on one path of the game
MaxPvCalls == 3          \* calls of cfr at player nodes by each thread
NoThread == 0

PVIdle ==
    /\ pvNodes = {}
    /\ pvNodeMutexes = {}
    /\ pvMapMutex = NoThread
    /\ pvNodeLock = <<>>
    /\ pvPc = <<>>
    /\ pvStack = <<>>
    /\ pvCalls = <<>>
    /\ pvFault = FALSE

\* Parallel_Vanilla_CFR, solve(nb_iterations): the maps are empty, the threads
\* are started
PVInit ==
    /\ pvNodes = {}
    /\ pvNodeMutexes = {}
    /\ pvMapMutex = NoThread
    /\ pvNodeLock = [k \in InfoSetKeys |-> NoThread]
    /\ pvPc = [t \in Threads |-> "idle"]
    /\ pvStack = [t \in Threads |-> <<>>]
    /\ pvCalls = [t \in Threads |-> MaxPvCalls]
    /\ pvFault = FALSE

pv_info_set(t) == Head(pvStack[t])

\* cfr(g, pi1, pi2) reaches a player node: actions, current_player, info_set
pv_cfr_call(t) ==
    /\ ~pvFault
    /\ pvPc[t] \in {"idle", "recurse"}
    /\ Len(pvStack[t]) < MaxPvDepth
    /\ pvCalls[t] > 0
    /\ \E k \in InfoSetKeys \ {pvStack[t][i] : i \in 1..Len(pvStack[t])} :
          pvStack' = [pvStack EXCEPT ![t] = <<k>> \o @]
    /\ pvCalls' = [pvCalls EXCEPT ![t] = @ - 1]
    /\ pvPc' = [pvPc EXCEPT ![t] = "lock_map"]
    /\ UNCHANGED <<pvNodes, pvNodeMutexes, pvMapMutex, pvNodeLock, pvFault>>
    /\ PVFrame

\* std::lock_guard<std::mutex> lock(map_mutex)
pv_lock_map(t) ==
    /\ ~pvFault
    /\ pvPc[t] = "lock_map"
    /\ pvMapMutex = NoThread
    /\ pvMapMutex' = t
    /\ pvPc' = [pvPc EXCEPT ![t] = "find"]
    /\ UNCHANGED <<pvNodes, pvNodeMutexes, pvNodeLock, pvStack, pvCalls, pvFault>>
    /\ PVFrame

\* if (nodes.find(info_set) == nodes.end())
pv_find(t) ==
    /\ ~pvFault
    /\ pvPc[t] = "find"
    /\ pvPc' = [pvPc EXCEPT ![t] = IF pv_info_set(t) \in pvNodes THEN "unlock_map"
                                   ELSE "insert_node"]
    /\ UNCHANGED <<pvNodes, pvNodeMutexes, pvMapMutex, pvNodeLock, pvStack, pvCalls, pvFault>>
    /\ PVFrame

\* nodes[info_set].nb_actions = actions.size()
pv_insert_node(t) ==
    /\ ~pvFault
    /\ pvPc[t] = "insert_node"
    /\ pvNodes' = pvNodes \cup {pv_info_set(t)}
    /\ pvPc' = [pvPc EXCEPT ![t] = "insert_mutex"]
    /\ UNCHANGED <<pvNodeMutexes, pvMapMutex, pvNodeLock, pvStack, pvCalls, pvFault>>
    /\ PVFrame

\* node_mutexes[info_set] = std::make_unique<std::mutex>()
pv_insert_mutex(t) ==
    /\ ~pvFault
    /\ pvPc[t] = "insert_mutex"
    /\ pvNodeMutexes' = pvNodeMutexes \cup {pv_info_set(t)}
    /\ pvPc' = [pvPc EXCEPT ![t] = "unlock_map"]
    /\ UNCHANGED <<pvNodes, pvMapMutex, pvNodeLock, pvStack, pvCalls, pvFault>>
    /\ PVFrame

\* the block of the lock_guard ends
pv_unlock_map(t) ==
    /\ ~pvFault
    /\ pvPc[t] = "unlock_map"
    /\ pvMapMutex' = NoThread
    /\ pvPc' = [pvPc EXCEPT ![t] = "at_node"]
    /\ UNCHANGED <<pvNodes, pvNodeMutexes, pvNodeLock, pvStack, pvCalls, pvFault>>
    /\ PVFrame

\* a lookup in a map while another thread inserts into the same map is a data
\* race: the lookup finds the element, or walks buckets that are being
\* rehashed and the program stops
LookupOutcomes(t, inserting) ==
    IF \E u \in Threads \ {t} : pvPc[u] = inserting THEN {"found", "fault"} ELSE {"found"}

\* Node& n = nodes.at(info_set)
pv_at_node(t) ==
    /\ ~pvFault
    /\ pvPc[t] = "at_node"
    /\ \E outcome \in LookupOutcomes(t, "insert_node") :
          /\ pvFault' = (outcome = "fault")
          /\ pvPc' = [pvPc EXCEPT ![t] = IF outcome = "fault" THEN "fault" ELSE "at_mutex"]
    /\ UNCHANGED <<pvNodes, pvNodeMutexes, pvMapMutex, pvNodeLock, pvStack, pvCalls>>
    /\ PVFrame

\* std::mutex& node_lock = *node_mutexes.at(info_set)
pv_at_mutex(t) ==
    /\ ~pvFault
    /\ pvPc[t] = "at_mutex"
    /\ \E outcome \in LookupOutcomes(t, "insert_mutex") :
          /\ pvFault' = (outcome = "fault")
          /\ pvPc' = [pvPc EXCEPT ![t] = IF outcome = "fault" THEN "fault" ELSE "lock_read"]
    /\ UNCHANGED <<pvNodes, pvNodeMutexes, pvMapMutex, pvNodeLock, pvStack, pvCalls>>
    /\ PVFrame

\* std::lock_guard<std::mutex> lock(node_lock), of step 2 and of step 4
pv_lock_node(t) ==
    /\ ~pvFault
    /\ pvPc[t] \in {"lock_read", "lock_write"}
    /\ pvNodeLock[pv_info_set(t)] = NoThread
    /\ pvNodeLock' = [pvNodeLock EXCEPT ![pv_info_set(t)] = t]
    /\ pvPc' = [pvPc EXCEPT ![t] = IF pvPc[t] = "lock_read" THEN "current_strategy"
                                   ELSE "update"]
    /\ UNCHANGED <<pvNodes, pvNodeMutexes, pvMapMutex, pvStack, pvCalls, pvFault>>
    /\ PVFrame

\* n.current_strategy(s); the block of the lock_guard ends
pv_current_strategy(t) ==
    /\ ~pvFault
    /\ pvPc[t] = "current_strategy"
    /\ pvNodeLock' = [pvNodeLock EXCEPT ![pv_info_set(t)] = NoThread]
    /\ pvPc' = [pvPc EXCEPT ![t] = "recurse"]
    /\ UNCHANGED <<pvNodes, pvNodeMutexes, pvMapMutex, pvStack, pvCalls, pvFault>>
    /\ PVFrame

\* the loop over the actions is over (the calls of cfr for the children are
\* pv_cfr_call): step 4 begins
pv_children_done(t) ==
    /\ ~pvFault
    /\ pvPc[t] = "recurse"
    /\ pvPc' = [pvPc EXCEPT ![t] = "lock_write"]
    /\ UNCHANGED <<pvNodes, pvNodeMutexes, pvMapMutex, pvNodeLock, pvStack, pvCalls, pvFault>>
    /\ PVFrame

\* n.regrets[i] += ...; n.strategies[i] += ...; the block of the lock_guard
\* ends; return node_util
pv_update(t) ==
    /\ ~pvFault
    /\ pvPc[t] = "update"
    /\ pvNodeLock' = [pvNodeLock EXCEPT ![pv_info_set(t)] = NoThread]
    /\ pvStack' = [pvStack EXCEPT ![t] = Tail(@)]
    /\ pvPc' = [pvPc EXCEPT ![t] = IF Len(pvStack[t]) = 1 THEN "idle" ELSE "recurse"]
    /\ UNCHANGED <<pvNodes, pvNodeMutexes, pvMapMutex, pvCalls, pvFault>>
    /\ PVFrame

PVNext ==
    \E t \in Threads :
        \/ pv_cfr_call(t)
        \/ pv_lock_map(t)
        \/ pv_find(t)
        \/ pv_insert_node(t)
        \/ pv_insert_mutex(t)
        \/ pv_unlock_map(t)
        \/ pv_at_node(t)
        \/ pv_at_mutex(t)
        \/ pv_lock_node(t)
        \/ pv_current_strategy(t)
        \/ pv_children_done(t)
        \/ pv_update(t)

(***************************************************************************)
(* C11, C13, C14, C15 (the traversals of the whole tree).                  *)
(***************************************************************************)
FullTraversal == kImpl \in {"linear_cfr", "cfr_plus_iteration"}
Records == 1..Len(kLog)
\* the accumulation changes a slot of its entry
Modifies(r) == \E i \in 1..r.n : r.dr[i][1] # 0 \/ r.ds[i][1] # 0
\* the reach probabilities of the player of the node and of the other player
PiOwn(r) == IF r.player = PLAYER1 THEN r.pi1 ELSE r.pi2
PiOpp(r) == IF r.player = PLAYER1 THEN r.pi2 ELSE r.pi1
\* the regret of action i (from 1) for the player of the node
InstantRegret(r, i) ==
    IF r.player = PLAYER1 THEN RatMinus(r.utils[i], r.u) ELSE RatMinus(r.u, r.utils[i])

\* C11: each iteration of linear_cfr and of cfr_plus_iteration has a single
\* updating player: the entries it modifies are all of one player (and that
\* player alternates with the parity of the iteration number).
C11_SingleUpdatingPlayer ==
    FullTraversal =>
        \A a, b \in Records :
            (kLog[a].k = kLog[b].k /\ Modifies(kLog[a]) /\ Modifies(kLog[b]))
                => kLog[a].player = kLog[b].player

\* one iteration of linear_cfr has modified entries of both players
C11_LinearBothPlayers ==
    /\ kImpl = "linear_cfr"
    /\ \E a, b \in Records :
          /\ kLog[a].k = kLog[b].k /\ Modifies(kLog[a]) /\ Modifies(kLog[b])
          /\ kLog[a].player = PLAYER1 /\ kLog[b].player = PLAYER2
\* one iteration of cfr_plus_iteration has modified entries of both players
C11_PlusBothPlayers ==
    /\ kImpl = "cfr_plus_iteration"
    /\ \E a, b \in Records :
          /\ kLog[a].k = kLog[b].k /\ Modifies(kLog[a]) /\ Modifies(kLog[b])
          /\ kLog[a].player = PLAYER1 /\ kLog[b].player = PLAYER2

\* the deltas of a record are those of weight w
RegretWeighted(r, w) ==
    \A i \in 1..r.n :
        r.dr[i] = RatMul(<<w, 1>>, RatMul(RatMul(PiOpp(r), r.pc), InstantRegret(r, i)))
StrategyWeighted(r, w) ==
    \A i \in 1..r.n : r.ds[i] = RatMul(<<w, 1>>, RatMul(PiOwn(r), r.s[i]))

\* C13: the k-th iteration of Linear CFR (k = 1..N) multiplies its regret
\* deltas and its cumulative-strategy deltas by k; the first iteration has a
\* weight that is not zero.
C13_LinearWeightIsOrdinal ==
    kImpl = "linear_cfr" =>
        \A a \in Records : RegretWeighted(kLog[a], kLog[a].k)
                            /\ StrategyWeighted(kLog[a], kLog[a].k)

\* the k-th iteration of linear_cfr weights its deltas by k - 1
C13_LinearWeightIsOrdinalLessOne ==
    kImpl = "linear_cfr" =>
        \A a \in Records : /\ kLog[a].tag = kLog[a].k - 1
                            /\ RegretWeighted(kLog[a], kLog[a].k - 1)
                            /\ StrategyWeighted(kLog[a], kLog[a].k - 1)
\* the first iteration of linear_cfr has ended and no slot has changed
C13_FirstIterationChangesNothing ==
    /\ kImpl = "linear_cfr" /\ kCount = 1 /\ kPc = "idle"
    /\ Len(kLog) > 0
    /\ ~TableChanged
    /\ \A k \in 1..Len(probas) : probas[k][1] = 0 \/ \E idx \in ChanceNodes :
            k - 1 \in node_idx_to_data_idx[idx + 1]..(node_idx_to_data_idx[idx + 1] + NodeN(idx) - 1)

\* C14: in iteration t of CFR+ the regret delta has weight 1 and the
\* cumulative-strategy delta is t * pi_p * sigma[a].
C14_PlusWeights ==
    kImpl = "cfr_plus_iteration" =>
        \A a \in Records : RegretWeighted(kLog[a], 1)
                            /\ StrategyWeighted(kLog[a], kLog[a].k)

\* cfr_plus_iteration gives both deltas the weight 1 in every iteration
C14_PlusWeightsAreOne ==
    kImpl = "cfr_plus_iteration" =>
        \A a \in Records : RegretWeighted(kLog[a], 1) /\ StrategyWeighted(kLog[a], 1)
\* the second iteration of CFR+ has accumulated a strategy delta of weight 1
C14_SecondIterationUnweighted ==
    /\ kImpl = "cfr_plus_iteration"
    /\ \E a \in Records : /\ kLog[a].k = 2
                            /\ \E i \in 1..kLog[a].n : kLog[a].ds[i][1] # 0
                            /\ StrategyWeighted(kLog[a], 1)

\* C15: an iteration of CFR+ never prunes: it returns at once at no node, and
\* when it ends it has visited every node of the tree.
C15_PlusNeverPrunes ==
    kImpl = "cfr_plus_iteration" =>
        /\ kPruned = {}
        /\ kPc = "idle" => kVisited = Nodes

\* an iteration of CFR+ has ended that returned at once at some node, and so
\* did not visit the nodes below it
C15_PlusPruned ==
    /\ kImpl = "cfr_plus_iteration" /\ kPc = "idle"
    /\ kPruned # {}
    /\ kVisited # Nodes
\* the nodes an ended iteration has not entered are those under a pruned call
C15_PlusVisitsAllButPruned ==
    (FullTraversal /\ kPc = "idle" /\ kPruned = {}) => kVisited = Nodes

(***************************************************************************)
(* C16, C17 (the sampling traversals).                                     *)
(***************************************************************************)
\* the children of a node the running iteration has entered
ChildrenVisited(idx) == {i \in 0..(NodeN(idx) - 1) : KernelChild(idx, i) \in kVisited}
\* the accumulations the running iteration has made at a node
RecordsAt(idx) == {a \in Records : kLog[a].k = kCount /\ kLog[a].node = idx}
\* the step changes the memory of shard e
EntryChanged(e) ==
    \/ shards'[e] # shards[e]
    \/ kBeyond # <<>> /\ kBeyond'[e] # kBeyond[e]
InnerVisited == {idx \in kVisited : NodeN(idx) > 0}

ExternalSamplingShape ==
    (kImpl = "external_sampling_mccfr" /\ kPc = "idle") =>
        /\ \A idx \in InnerVisited :
              IF NodeKind(idx) = kPlayer
              THEN /\ ChildrenVisited(idx) = 0..(NodeN(idx) - 1)
                   /\ Cardinality(RecordsAt(idx)) = 1
              ELSE /\ Cardinality(ChildrenVisited(idx)) = 1
                   /\ RecordsAt(idx) = {}
        /\ \A a \in Records : kLog[a].player = kLog[a].updating
ExternalSamplingWrites ==
    kImpl = "external_sampling_mccfr" =>
        \A e \in 1..Len(shards) :
            EntryChanged(e) =>
                /\ kStack # <<>>
                /\ e = node_idx_to_data_idx[Head(kStack).idx + 1] + 1
                /\ NodeKind(Head(kStack).idx) = kPlayer

\* C16: in an iteration of external-sampling MCCFR with updating player p,
\* at every visited node of p all children are traversed and the entry of the
\* node is updated once; at every visited node of the opponent and of chance
\* exactly one child is traversed; no step changes an entry of the opponent.
C16_ExternalSampling == []ExternalSamplingShape /\ [][ExternalSamplingWrites]_vars

\* an iteration of external sampling has ended that went through a node of the
\* updating player, a node of the opponent and a chance node
C16_Witness ==
    /\ kImpl = "external_sampling_mccfr" /\ kPc = "idle"
    /\ \E idx, jdx, cdx \in InnerVisited :
          /\ NodeKind(idx) = kPlayer
          /\ NodeKind(jdx) \notin {kPlayer, CHANCE}
          /\ NodeKind(cdx) = CHANCE
          /\ RecordsAt(idx) # {}

\* an ended iteration went down one path, and every accumulation gave a delta
\* to the slots of the sampled action only
OnePath == \A idx \in InnerVisited : Cardinality(ChildrenVisited(idx)) = 1
OnlySampledSlots ==
    \A a \in Records :
        \A i \in 1..kLog[a].n :
            (kLog[a].dr[i][1] # 0 \/ kLog[a].ds[i][1] # 0) => i = kLog[a].sampled + 1

\* C17: an iteration of outcome-sampling MCCFR traverses exactly one path from
\* the root to a terminal node: one child is sampled at every visited node,
\* the nodes of the updating player included, and only the slots of the
\* sampled action receive a delta that is not zero.
C17_OutcomeSampling ==
    kImpl \in {"outcome_sampling_mccfr", "outcome_sampling"} =>
        /\ kPc = "idle" => OnePath
        /\ OnlySampledSlots

\* outcome_sampling_mccfr of part_000 does so
C17_OutcomeSamplingPart000 ==
    kImpl = "outcome_sampling_mccfr" =>
        /\ kPc = "idle" => OnePath
        /\ OnlySampledSlots
\* an iteration of outcome_sampling of mccfr.h has ended that went into every
\* child of a node of the traversing player and gave two actions a delta
C17_EveryActionExplored ==
    /\ kImpl = "outcome_sampling" /\ kPc = "idle"
    /\ \E idx \in InnerVisited :
          /\ NodeKind(idx) = kPlayer
          /\ ChildrenVisited(idx) = 0..(NodeN(idx) - 1)
          /\ \E a \in RecordsAt(idx) :
                \E i, j \in 1..kLog[a].n : i # j /\ kLog[a].dr[i][1] # 0 /\ kLog[a].dr[j][1] # 0
\* an iteration of outcome_sampling_mccfr has ended that accumulated at a node
C17_Part000OnePath ==
    /\ kImpl = "outcome_sampling_mccfr" /\ kPc = "idle"
    /\ \E idx \in InnerVisited : RecordsAt(idx) # {} /\ Modifies(kLog[CHOOSE a \in RecordsAt(idx) : TRUE])

(***************************************************************************)
(* C18 (get_strategy).                                                     *)
(***************************************************************************)
RECURSIVE SubmittedStrategy(_, _, _)
\* the sum of the cumulative-strategy deltas the first k accumulations have
\* submitted for slot i of an entry
SubmittedStrategy(k, entry, i) ==
    IF k = 0 THEN RatNil
    ELSE RatPlus(SubmittedStrategy(k - 1, entry, i),
                 IF kLog[k].entry = entry THEN kLog[k].ds[i] ELSE RatNil)
\* the cumulative strategy S of the info set of a node
CumulativeS(idx) ==
    [i \in 1..NodeN(idx) |-> SubmittedStrategy(Len(kLog), node_idx_to_data_idx[idx + 1], i)]
\* the part of the Strategy recorded for an info set
Recorded(info_set, field) ==
    SubSeq(field, MapGet(kStrategy.info_set_to_idx, info_set) + 1,
           MapGet(kStrategy.info_set_to_idx, info_set)
               + MapGet(kStrategy.info_set_to_nb_actions, info_set))
StrategyKeys == {kStrategy.info_set_to_idx[k][1] : k \in 1..Len(kStrategy.info_set_to_idx)}

OneDistributionPerInfoSet ==
    /\ StrategyKeys = PlayerInfoSets
    /\ Len(kStrategy.info_set_to_idx) = Cardinality(PlayerInfoSets)
    /\ Len(kStrategy.actions) = Len(kStrategy.strategies)
OverItsLabels ==
    \A idx \in PlayerNodes :
        Recorded(InfoSetOf(idx), kStrategy.actions)
            = [i \in 1..NodeN(idx) |-> Label(NodeStart(idx) + i - 1)]
NormalisedCumulativeStrategy ==
    \A idx \in PlayerNodes :
        LET S == CumulativeS(idx)
            n == NodeN(idx)
            sigma == Recorded(InfoSetOf(idx), kStrategy.strategies)
        IN  /\ Len(sigma) = n
            /\ \A i \in 1..n :
                  IF RatSeqSum(S)[1] > 0 THEN RatEq(sigma[i], RatDiv(S[i], RatSeqSum(S)))
                  ELSE RatEq(sigma[i], <<1, n>>)
            /\ RatEq(RatSeqSum(sigma), RatOne)
StrategyAsSpecified ==
    OneDistributionPerInfoSet /\ OverItsLabels /\ NormalisedCumulativeStrategy

\* C18: after any number of iterations, zero included, get_strategy records
\* exactly one distribution per reachable player info set, over exactly the
\* labels of that info set; it is S[a] / sum(S) where sum(S) > 0 and uniform
\* 1/n otherwise, and it sums to 1.
C18_GetStrategy == kPc = "strategy" => StrategyAsSpecified

\* get_strategy of cfr.h, cfr_plus.h and mccfr.h does so
C18_GetStrategyInsideArrays == (kPc = "strategy" /\ slKind # "MCCFR") => StrategyAsSpecified
\* get_strategy of part_000 records one distribution per info set over its labels
C18_Part000Shape ==
    (kPc = "strategy" /\ slKind = "MCCFR") => OneDistributionPerInfoSet /\ OverItsLabels
\* before any iteration get_strategy of part_000 has returned a distribution
\* that is not uniform
C18_Part000NotUniform ==
    /\ kPc = "strategy" /\ slKind = "MCCFR" /\ kCount = 0
    /\ \E idx \in PlayerNodes :
          ~RatEq(Recorded(InfoSetOf(idx), kStrategy.strategies)[1], <<1, NodeN(idx)>>)
\* get_strategy of cfr.h has returned after an iteration that changed the table
C18_AfterIterations ==
    /\ kPc = "strategy" /\ slKind = "CFR" /\ TableChanged
    /\ \E idx \in PlayerNodes :
          ~RatEq(Recorded(InfoSetOf(idx), kStrategy.strategies)[1], <<1, NodeN(idx)>>)

(***************************************************************************)
(* C23 (determinism of external-sampling MCCFR).                           *)
(***************************************************************************)
RECURSIVE SubmittedRegret(_, _, _)
\* the sum of the regret deltas the first k accumulations have submitted for
\* slot i of an entry
SubmittedRegret(k, entry, i) ==
    IF k = 0 THEN RatNil
    ELSE RatPlus(SubmittedRegret(k - 1, entry, i),
                 IF kLog[k].entry = entry THEN kLog[k].dr[i] ELSE RatNil)

\* the regrets of the entries accumulated into are the sums of the deltas of
\* the sampled traversals
RegretsFromSamples ==
    \A a \in Records :
        \A i \in 1..kLog[a].n :
            RatEq(ShardMemory(kLog[a].entry + 1)[i],
                  SubmittedRegret(Len(kLog), kLog[a].entry, i))

\* and so are their cumulative strategies
StrategiesFromSamples ==
    \A a \in Records :
        \A i \in 1..kLog[a].n :
            RatEq(ShardMemory(kLog[a].entry + 1)[kLog[a].n + i],
                  SubmittedStrategy(Len(kLog), kLog[a].entry, i))

ExternalSamplingEnded == kImpl = "external_sampling_mccfr" /\ kPc = "idle" /\ kCount > 0

\* C23. Determinism: two runs of external-sampling MCCFR on the same tree with
\* one thread, the same PRNG seed and the same number of iterations end with
\* identical regret and cumulative-strategy tables.  The seed fixes the actions
\* sampled, and these the deltas submitted: every iteration ends, and the
\* tables it leaves are the sums of the deltas of the sampled traversals,
\* whatever else differs between the two runs.
C23_Determinism ==
    /\ kImpl = "external_sampling_mccfr" => kPc # "fault"
    /\ ExternalSamplingEnded => RegretsFromSamples /\ StrategiesFromSamples

\* C23, the part that holds: the regrets, which lie inside the arrays, are
\* fixed by the sampled actions
C23_RegretsDetermined == ExternalSamplingEnded => RegretsFromSamples

\* an iteration has ended with a cumulative strategy that holds what the
\* memory behind the array held when the shards were constructed
C23_StrategyHoldsOldMemory ==
    /\ ExternalSamplingEnded
    /\ Records # {}
    /\ ~StrategiesFromSamples

(***************************************************************************)
(* C19, C20 (best_response and evaluate).                                  *)
(***************************************************************************)
Opponent(player) == IF player = PLAYER1 THEN PLAYER2 ELSE PLAYER1
ParentOf(idx) == CHOOSE j \in Nodes : \E i \in 0..(NodeN(j) - 1) : KernelChild(j, i) = idx
ChildRank(idx) == CHOOSE i \in 0..(NodeN(ParentOf(idx)) - 1) : KernelChild(ParentOf(idx), i) = idx

RECURSIVE Reach(_, _, _)
\* the probability that chance and the strategy sigma of the opponent of
\* player give the path from the root to node idx
Reach(idx, sigma, player) ==
    IF idx = 0 THEN RatOne
    ELSE LET j == ParentOf(idx)
             w == CASE NodeKind(j) = CHANCE -> chance_weight(j, ChildRank(idx))
                    [] NodeKind(j) = player -> RatOne
                    [] OTHER -> Strategy_get_strategy(sigma, InfoSetOf(j), ChildRank(idx))
         IN  RatMul(w, Reach(j, sigma, player))

\* the value for player of node idx when player plays beta and the opponent sigma
ValueFor(idx, beta, sigma, player) ==
    IF player = PLAYER1 THEN evaluate(idx, beta, sigma)
    ELSE RatNeg(evaluate(idx, sigma, beta))

\* the sum over the states s of the info set of reach(s) * value(child_a(s))
ActionSum(info_set, a, beta, sigma, player) ==
    LET members == SortedSeq({idx \in PlayerNodes : InfoSetOf(idx) = info_set})
    IN  RatSeqSum([k \in 1..Len(members) |->
            RatMul(Reach(members[k], sigma, player),
                   ValueFor(KernelChild(members[k], a), beta, sigma, player))])

InfoSetsOf(player) == {InfoSetOf(idx) : idx \in {j \in PlayerNodes : NodeKind(j) = player}}
ActionsAt(info_set) == NodeN(CHOOSE idx \in PlayerNodes : InfoSetOf(idx) = info_set)
\* best_response(tree, brS, player) has just returned brDone[player + 1]
Returned(player) == brPc = "idle" /\ brPlayer = player
ChosenAt(beta, info_set) ==
    CHOOSE a \in 0..(ActionsAt(info_set) - 1) : Strategy_get_strategy(beta, info_set, a) = RatOne

\* the Strategy beta holds, for exactly the info sets of player, probability 1
\* on one action and 0 on the others
Deterministic(beta, player) ==
    /\ {beta.info_set_to_idx[k][1] : k \in 1..Len(beta.info_set_to_idx)} = InfoSetsOf(player)
    /\ Len(beta.strategies) = SeqSum([k \in 1..Len(beta.info_set_to_nb_actions) |->
                                         beta.info_set_to_nb_actions[k][2]])
    /\ \A info_set \in InfoSetsOf(player) :
          /\ MapGet(beta.info_set_to_nb_actions, info_set) = ActionsAt(info_set)
          /\ \E a \in 0..(ActionsAt(info_set) - 1) :
                \A b \in 0..(ActionsAt(info_set) - 1) :
                    Strategy_get_strategy(beta, info_set, b) = IF b = a THEN RatOne ELSE RatNil

\* the action beta chooses at each info set of player has the greatest sum,
\* and every action of smaller index a smaller sum
Maximizing(beta, sigma, player) ==
    \A info_set \in InfoSetsOf(player) :
        LET a == ChosenAt(beta, info_set)
            sum(b) == ActionSum(info_set, b, beta, sigma, player)
        IN  /\ \A b \in 0..(ActionsAt(info_set) - 1) : ~RatLess(sum(a), sum(b))
            /\ \A b \in 0..(a - 1) : RatLess(sum(b), sum(a))

\* C19: best_response(tree, sigma, p) stores, for every info set of player p,
\* probability 1 on exactly one action and 0 on the others; the chosen action
\* maximizes the sum over the info set's states s of
\* reach(s) * value(child_a(s)), and among the maximizing actions it is the
\* one of smallest index.
C19_BestResponse ==
    \A player \in {PLAYER1, PLAYER2} :
        Returned(player) =>
            /\ Deterministic(brDone[player + 1], player)
            /\ Maximizing(brDone[player + 1], brS, player)

\* both best responses have returned, one info set had two maximizing actions
\* and another one a single maximizing action that is not the first
C19_TieAndChoice ==
    /\ Returned(PLAYER2)
    /\ \E info_set \in InfoSetsOf(PLAYER1) :
          ActionSum(info_set, 0, brDone[1], brS, PLAYER1)
              = ActionSum(info_set, 1, brDone[1], brS, PLAYER1)
    /\ \E info_set \in InfoSetsOf(PLAYER2) :
          /\ ChosenAt(brDone[2], info_set) = 1
          /\ RatLess(ActionSum(info_set, 0, brDone[2], brS, PLAYER2),
                     ActionSum(info_set, 1, brDone[2], brS, PLAYER2))

\* C20: with the values evaluate computes from PLAYER1's side, for every
\* strategy profile sigma, value(BR_P1 vs sigma) >= value(sigma vs sigma) >=
\* value(sigma vs BR_P2), where BR_Pi = best_response(tree, sigma, Pi).
C20_Dominance ==
    brPc = "evaluated" =>
        /\ ~RatLess(brEval[1], brEval[2])
        /\ ~RatLess(brEval[2], brEval[3])

\* a profile that both players can improve on: both inequalities are strict
C20_BothStrict ==
    /\ brPc = "evaluated"
    /\ RatLess(brEval[2], brEval[1])
    /\ RatLess(brEval[3], brEval[2])

(***************************************************************************)
(* C21, C22, C25, C30 (PostflopPoker played and traversed).                *)
(***************************************************************************)

\* C21. Play/undo round trip: for every game, play(a) followed by undo(a)
\* leaves get_state() equal to its value before play(a).  For a PostflopPoker
\* that is traversed (play, recurse, undo), each undo gives back the state the
\* undone play started from.
C21_RoundTrip ==
    [][game_undo => PostflopPoker_get_state(ppGame') = Head(ppTrail).state]_vars

\* C21, the part that holds: in the tree build of SimplePoker and Leduc, each
\* game.undo(a) gives back the state of the node whose loop called play(a).
C21_TreeBuildRoundTrip ==
    [][build_tree_undo =>
          Game_get_state(tgName, game') = states[Head(tgStack).root + 1]]_vars

\* a PostflopPoker round trip that fails: the play ended the street, the undo
\* does not take the last action out of the history
C21_UndoAfterStreetEnd ==
    /\ ppTrail # <<>>
    /\ Head(ppTrail).a = PostflopPoker_CHECK
    /\ Head(ppTrail).street = FLOP_BETTING
    /\ ppGame.street = TURN_DEAL

\* C22. Zero-sum payoffs: at every terminal state of every game, whether the
\* hand ends by a fold or by a showdown, payoff(P1) + payoff(P2) = 0.  For
\* PostflopPoker: whenever the game is over, the two payoffs sum to zero.
C22_ZeroSum ==
    ppGame # <<>> /\ PostflopPoker_game_over(ppGame)
        => PostflopPoker_payoff(ppGame, PLAYER1, ppShowdown)
               + PostflopPoker_payoff(ppGame, PLAYER2, ppShowdown) = 0

\* C22, the part that holds: at every terminal state the tree build of
\* SimplePoker and Leduc visits, the two payoffs sum to zero.
C22_ZeroSumSimplePokerLeduc ==
    tgName \in {"SimplePoker", "Leduc"} /\ Game_game_over(tgName, game)
        => Game_payoff(tgName, game, PLAYER1) + Game_payoff(tgName, game, PLAYER2) = 0

\* a PostflopPoker hand ended by a fold after a bet: both payoffs are computed
\* from player 1's contribution
C22_FoldAfterBet ==
    /\ ppGame # <<>>
    /\ PostflopPoker_game_over(ppGame)
    /\ PostflopPoker_get_last_action(ppGame) = PostflopPoker_FOLD
    /\ ppGame.stack_p1 < ppGame.starting_stack_p1

\* the last play was a CHECK with nothing to call, directly after a CHECK of
\* the same street
SecondCheck ==
    /\ ppTrail # <<>>
    /\ Head(ppTrail).a = PostflopPoker_CHECK
    /\ Head(ppTrail).street \in {FLOP_BETTING, TURN_BETTING, RIVER_BETTING}
    /\ Head(ppTrail).to_call = 0
    /\ Len(ppTrail) >= 2
    /\ ppTrail[2].a = PostflopPoker_CHECK
    /\ ppTrail[2].street = Head(ppTrail).street

\* C25. In PostflopPoker, on a betting street with nothing to call, two
\* consecutive CHECKs end the street: flop betting moves to the turn deal, turn
\* betting to the river deal and river betting to showdown.  Once the second
\* of the two CHECKs is played, the game is in the street that follows.
C25_CheckCheckEndsStreet ==
    SecondCheck => ppGame.street = Head(ppTrail).street + 1

\* the line of test_postflop.cpp: check, check, a turn card, check, check, a
\* river card, check, check
AllChecked ==
    /\ Len(ppTrail) = 8
    /\ \A k \in {1, 2, 4, 5, 7, 8} : ppTrail[k].a = PostflopPoker_CHECK
    /\ ppTrail[3].street = RIVER_DEAL
    /\ ppTrail[6].street = TURN_DEAL

\* C25, the part that holds: the all-check line ends with game_over() true,
\* and with an even starting pot the winner's payoff is starting_pot / 2 and the
\* loser's -starting_pot / 2
C25_AllCheckedLine ==
    AllChecked =>
        /\ PostflopPoker_game_over(ppGame)
        /\ ppGame.starting_pot % 2 = 0 /\ ppShowdown # 0 - 1 =>
               /\ PostflopPoker_payoff(ppGame, ppShowdown, ppShowdown)
                      = ppGame.starting_pot \div 2
               /\ PostflopPoker_payoff(ppGame, 1 - ppShowdown, ppShowdown)
                      = 0 - (ppGame.starting_pot \div 2)

\* two checks on the turn after a bet and a call on the flop: the history still
\* holds the flop's actions, and the street goes on
C25_StaleHistory ==
    /\ SecondCheck
    /\ Head(ppTrail).street = TURN_BETTING
    /\ ppGame.street = TURN_BETTING

\* C30. In every PostflopPoker state reachable by playing actions offered by
\* actions(), both stacks are non-negative: no bet, raise or call takes more
\* chips from a player than that player's remaining stack.
C30_StacksNonNegative ==
    ppGame # <<>> => ppGame.stack_p1 >= 0 /\ ppGame.stack_p2 >= 0

\* a raise of the pot offered to a player whose stack is smaller than the raise
C30_RaiseBeyondStack ==
    /\ ppTrail # <<>>
    /\ Head(ppTrail).a = RAISE_POT
    /\ ppGame.stack_p1 < 0

\* the iterations of the run that are over
IterationsOver == 1..(dcIter - 1)

\* 4, 16, 64, ...
PowersOf4From4 == {4 ^ k : k \in 1..3}

\* C24. DCFRPostflopSolver::solve clears the cumulative strategy at the end of
\* exactly the iterations whose number is in {4, 16, 64, 256, 1024, ...} and at
\* no other iteration of the run.
C24_StrategyReset ==
    dcPc # "none" => \A i \in IterationsOver : i \in dcCleared <=> i \in PowersOf4From4

\* C24, what the code does: the cumulative strategy is cleared at the end of
\* the iterations 1, 4, 16, 64, ... and of no other
C24_StrategyResetFromOne ==
    dcPc # "none" =>
        \A i \in IterationsOver : i \in dcCleared <=> i \in PowersOf4From4 \cup {1}

\* the first iteration is over and its strategies are gone from avg_strategy
C24_FirstIterationCleared ==
    /\ dcPc = "traverse"
    /\ dcIter = 2
    /\ 1 \in dcCleared
    /\ dcAvg = {}

\* C27. Every index that MCCFR reads or writes in a shard's
\* regrets_and_strategies array (0..2n-1 for a node with n actions) lies
\* within the array's capacity, for every n with
\* 1 <= n <= MAX_NB_PLAYER_ACTIONS.
C27_IndicesWithinCapacity ==
    \A t \in Threads :
        accImpl = "MCCFR" /\ accPc[t] \in {"read", "write"} => accI[t] < AccCapacity

\* C27, the part that holds: the shard of part_006, whose vector is resized to
\* 2n, and MCCFR's shard at a node with 2n <= MAX_NB_PLAYER_ACTIONS are
\* accessed within their capacity
C27_WithinCapacityWhereItFits ==
    \A t \in Threads :
        /\ accPc[t] \in {"read", "write"}
        /\ accImpl = "CFR" \/ (accImpl = "MCCFR" /\ 2 * accN <= MAX_NB_PLAYER_ACTIONS)
        => accI[t] < AccCapacity

\* MCCFR is about to store the first cumulative strategy of a node with
\* n = MAX_NB_PLAYER_ACTIONS actions, one slot past the array
C27_StorePastArray ==
    \E t \in Threads :
        /\ accImpl = "MCCFR"
        /\ accN = MAX_NB_PLAYER_ACTIONS
        /\ accPc[t] = "write"
        /\ accI[t] = AccCapacity

\* the flag of the entry of CFRPlus is set only while a thread is inside one
\* of the three locking operations
CPFlagOnlyInside == cpLock => \E t \in Threads : CPHoldsFlag(t)

CPRecursing(t) == cpPc[t] \in {"gs_norm", "ar_cas"}

CPAlone ==
    \A t \in Threads :
        (CPRecursing(t) /\ \A u \in Threads \ {t} : cpPc[u] = "idle") => ~cpLock

CPProgress ==
    \A t \in Threads :
        /\ (cpPc[t] = "gs_cas") ~> (cpPc[t] = "gs_read")
        /\ (cpPc[t] = "ar_cas") ~> (cpPc[t] = "ar_read")
        /\ (cpPc[t] = "as_cas") ~> (cpPc[t] = "as_read")
        /\ (cpPc[t] # "idle") ~> (cpPc[t] = "idle" /\ ~CPHoldsFlag(t))

\* C28, for add_regret_and_strategies of MCCFR (part_000) and of the shard of
\* part_006: every call that starts takes the flag, and returns
AccThread(t) ==
    \/ add_regret_and_strategies_call(t)
    \/ add_regret_and_strategies_load(t)
    \/ add_regret_and_strategies_cas(t)
    \/ add_regret_and_strategies_read(t)
    \/ add_regret_and_strategies_write(t)
    \/ add_regret_and_strategies_unlock(t)
    \/ accumulate_call(t)
    \/ accumulate_batch(t)
    \/ accumulate_cas_weak(t)

AccPosition == <<accPc, accI>>
AccFairness == \A t \in Threads : WF_AccPosition(AccThread(t))

C28_AccumulateProgress ==
    \A t \in Threads :
        /\ (accPc[t] \in {"load", "cas"}) ~> (accPc[t] = "read")
        /\ (accImpl \in {"MCCFR", "CFR"} /\ accPc[t] # "idle") ~> (accPc[t] = "idle")

MapLookups == {"find", "at_node", "at_mutex"}
MapInsertions == {"insert_node", "insert_mutex"}
NodeAccesses == {"current_strategy", "update"}

MapsUnderMapMutex ==
    \A t \in Threads : pvPc[t] \in MapLookups \cup MapInsertions => pvMapMutex = t

NoLookupDuringInsertion ==
    \A t, u \in Threads :
        t # u /\ pvPc[t] \in MapInsertions => pvPc[u] \notin MapLookups

NodeUnderItsMutex ==
    \A t \in Threads : pvPc[t] \in NodeAccesses => pvNodeLock[pv_info_set(t)] = t

\* C29. In Parallel_Vanilla_CFR every access to the maps nodes and
\* node_mutexes, lookup as well as insertion, is serialized by map_mutex, so no
\* thread looks up a map while another thread inserts into it; and the regrets
\* and strategies of a Node are read and written only while that node's own
\* mutex is held.
C29_Serialized ==
    pvPc # <<>> => MapsUnderMapMutex /\ NoLookupDuringInsertion /\ NodeUnderItsMutex

\* C29, the part that holds: find and the insertions run under map_mutex, and
\* a Node's regrets and strategies are accessed under the node's mutex
C29_InsertionsAndNodes ==
    pvPc # <<>> =>
        /\ \A t \in Threads : pvPc[t] \in MapInsertions \cup {"find"} => pvMapMutex = t
        /\ NodeUnderItsMutex
        /\ \A t, u \in Threads :
              (t # u /\ pvPc[t] \in NodeAccesses /\ pvPc[u] \in NodeAccesses)
                  => pv_info_set(t) # pv_info_set(u)

\* a thread is at nodes.at(info_set), map_mutex released, while another thread
\* holds map_mutex and is about to insert a new info set into nodes
C29_LookupRacesInsertion ==
    \E t, u \in Threads :
        /\ pvPc[t] = "at_node"
        /\ pvPc[u] = "insert_node"
        /\ pvMapMutex = u

(***************************************************************************)
(* C1.                                                                     *)
(***************************************************************************)
AccAllReturned == \A t \in Threads : accPc[t] = "idle"
AccAdditive == \A i \in 1..AccLen : accMem[i] = accSubmitted[i]

\* C1: once all calls of accumulate have returned, every R[a] and S[a] equals
\* its initial value (zero) plus the sum of all deltas submitted for that slot,
\* whatever the interleaving.
C1_Additivity == AccAllReturned => AccAdditive

\* the same, for the entries whose slots all lie inside the entry's array
C1_AdditivityInsideArray ==
    (AccAllReturned /\ AccLen <= AccCapacity) => AccAdditive

(***************************************************************************)
(* Specifications.                                                         *)
(***************************************************************************)
InitRM == RMInit /\ AccIdle /\ CPIdle /\ SVIdle /\ TreeIdle /\ SolverIdle /\ KernelIdle /\ BRIdle /\ PPIdle /\ DCIdle /\ PVIdle
InitAcc == AccInit /\ RMIdle /\ CPIdle /\ SVIdle /\ TreeIdle /\ SolverIdle /\ KernelIdle /\ BRIdle /\ PPIdle /\ DCIdle /\ PVIdle
InitPlus == CPInit /\ RMIdle /\ AccIdle /\ SVIdle /\ TreeIdle /\ SolverIdle /\ KernelIdle /\ BRIdle /\ PPIdle /\ DCIdle /\ PVIdle
InitSolve == SVInit /\ RMIdle /\ AccIdle /\ CPIdle /\ TreeIdle /\ SolverIdle /\ KernelIdle /\ BRIdle /\ PPIdle /\ DCIdle /\ PVIdle
InitCFRSolve == CFRSolveInit /\ RMIdle /\ AccIdle /\ CPIdle /\ TreeIdle /\ SolverIdle /\ KernelIdle /\ BRIdle /\ PPIdle /\ DCIdle /\ PVIdle
InitTree == TreeInit /\ SolverIdle /\ RMIdle /\ AccIdle /\ CPIdle /\ SVIdle /\ KernelIdle /\ BRIdle /\ PPIdle /\ DCIdle /\ PVIdle
InitKernel == KernelInit /\ RMIdle /\ AccIdle /\ CPIdle /\ SVIdle /\ BRIdle /\ PPIdle /\ DCIdle /\ PVIdle
InitPP == PPInit /\ RMIdle /\ AccIdle /\ CPIdle /\ SVIdle /\ TreeIdle /\ SolverIdle /\ KernelIdle /\ BRIdle /\ DCIdle /\ PVIdle
InitDCFR == DCInit /\ RMIdle /\ AccIdle /\ CPIdle /\ SVIdle /\ TreeIdle /\ SolverIdle /\ KernelIdle /\ BRIdle /\ PPIdle /\ PVIdle
InitPlusFair == CPFairInit /\ RMIdle /\ AccIdle /\ SVIdle /\ TreeIdle /\ SolverIdle /\ KernelIdle /\ BRIdle /\ PPIdle /\ DCIdle /\ PVIdle
InitPV == PVInit /\ RMIdle /\ AccIdle /\ CPIdle /\ SVIdle /\ TreeIdle /\ SolverIdle /\ KernelIdle /\ BRIdle /\ PPIdle /\ DCIdle
InitBR == BRInit /\ SolverIdle /\ KernelIdle /\ RMIdle /\ AccIdle /\ CPIdle /\ SVIdle /\ PPIdle /\ DCIdle /\ PVIdle

SpecRM == InitRM /\ [][RMNext]_vars
SpecAcc == InitAcc /\ [][AccNext]_vars
SpecPlus == InitPlus /\ [][CPNext]_vars
SpecSolve == InitSolve /\ [][SVNext]_vars
SpecCFRSolve == InitCFRSolve /\ [][CFRSolveNext]_vars
SpecTree == InitTree /\ [][TreeNext \/ SolverNext]_vars
SpecKernel == InitKernel /\ [][KernelNext]_vars
SpecStrategy == InitKernel /\ [][StrategyNext]_vars
SpecBR == InitBR /\ [][BRNext]_vars
SpecDCFR == InitDCFR /\ [][DCNext]_vars
SpecPlusFair == InitPlusFair /\ [][CPNext]_vars /\ CPFairness
SpecAccFair == InitAcc /\ [][AccNext]_vars /\ AccFairness
SpecPV == InitPV /\ [][PVNext]_vars
SpecPlay == InitPP /\ [][PlayNext]_vars
SpecTraverse == InitPP /\ [][TraverseNext]_vars

====
